---- MODULE Spec2Model ----
(***************************************************************************)
(* A model of server.py, the Soccer Session OCR web server: the /process   *)
(* handler (process_images), the session-type classifier                   *)
(* (validate_session_type) and the result normalizers (format_*_result).   *)
(*                                                                         *)
(* Python strings that the code inspects character by character (the       *)
(* session type, the classifier's answer) are sequences of one-character   *)
(* strings.  The extraction response is a sequence of tokens: a brace, a   *)
(* run of prose, or one JSON member.  Strings the code only passes along   *)
(* (model names, credentials, message parts) are TLA+ strings.             *)
(***************************************************************************)
EXTENDS Integers, Sequences, FiniteSets, TLC

VARIABLES
    API_KEY_MODE,     \* module global, server.py:17 (already lower-cased)
    SERVER_API_KEY,   \* module global, server.py:18
    FLASK_ENV,        \* module global, server.py:19
    session_type,     \* request.form.get("session_type"), server.py:173
    form_api_key,     \* request.form.get("api_key"), server.py:229
    files,            \* request.files.getlist("images"): sequence of [size]
    pos,              \* read position of each uploaded file object
    pc,               \* position of the handler in process_images
    verdict,          \* (is_valid, detected_type, confidence), server.py:237
    extraction_prompt,\* which instruction template was built, server.py:268-385
    content,          \* the image payloads built at server.py:388-408
    calls,            \* every client.messages.create issued, in order
    response_text,    \* message.content[0].text, server.py:429
    normalizer,       \* the function that produced the record, server.py:453-458
    response,         \* what the handler returned: [status, body]
    applied,          \* one normalizer function applied to one input, on its own
    peer              \* a second request that the server handles at the same time

vars == <<API_KEY_MODE, SERVER_API_KEY, FLASK_ENV, session_type, form_api_key,
          files, pos, pc, verdict, extraction_prompt, content, calls,
          response_text, normalizer, response, applied, peer>>

config == <<API_KEY_MODE, SERVER_API_KEY, FLASK_ENV>>
request == <<session_type, form_api_key, files>>
handler == <<pos, pc, verdict, extraction_prompt, content, calls, response_text,
             normalizer, response>>

-----------------------------------------------------------------------------
(* Bounds of the model *)

\* The longest extraction response, in tokens, that the vision service
\* returns to a request
MaxTextLen == 2

\* The longest extraction response, in tokens, handed to the parse step on
\* its own
MaxParseLen == 5

\* The most keys of a raw input handed to a normalizer function on its own
\* (the input with every key is handed to it as well)
MaxFields == 1

-----------------------------------------------------------------------------
(* Program constants *)

MAX_FILES == 20
MAX_FILE_SIZE == 10 * 1024 * 1024

\* session_type_limits, server.py:188-192
SPEED_AGILITY_LIMIT == 2
BALL_WORK_LIMIT == 4

-----------------------------------------------------------------------------
(* Python strings as sequences of characters *)

UpperCase == <<"A","B","C","D","E","F","G","H","I","J","K","L","M",
               "N","O","P","Q","R","S","T","U","V","W","X","Y","Z">>
LowerCase == <<"a","b","c","d","e","f","g","h","i","j","k","l","m",
               "n","o","p","q","r","s","t","u","v","w","x","y","z">>
WhiteSpace == {" ", "\n", "\t"}

\* str.lower() on one character
LowerChar(c) ==
    IF \E i \in 1..26 : UpperCase[i] = c
    THEN LowerCase[CHOOSE i \in 1..26 : UpperCase[i] = c]
    ELSE c

\* str.lower()
Lower(s) == [i \in 1..Len(s) |-> LowerChar(s[i])]

\* str.startswith(p)
StartsWith(s, p) == Len(s) >= Len(p) /\ SubSeq(s, 1, Len(p)) = p

\* p in s
Contains(s, p) ==
    \E i \in 1..(Len(s) - Len(p) + 1) : SubSeq(s, i, i + Len(p) - 1) = p

\* s.replace(old, ""): every non-overlapping occurrence, left to right
RECURSIVE Remove(_, _)
Remove(s, old) ==
    IF Len(s) = 0 THEN s
    ELSE IF StartsWith(s, old) THEN Remove(SubSeq(s, Len(old) + 1, Len(s)), old)
    ELSE <<Head(s)>> \o Remove(Tail(s), old)

\* str.strip()
RECURSIVE LStrip(_)
LStrip(s) == IF Len(s) > 0 /\ Head(s) \in WhiteSpace THEN LStrip(Tail(s)) ELSE s
RECURSIVE RStrip(_)
RStrip(s) ==
    IF Len(s) > 0 /\ s[Len(s)] \in WhiteSpace
    THEN RStrip(SubSeq(s, 1, Len(s) - 1)) ELSE s
Strip(s) == RStrip(LStrip(s))

\* The three session types, and a request that carries no session_type
\* (request.form.get returns None).
MATCH == <<"m","a","t","c","h">>
BALL_WORK == <<"b","a","l","l","_","w","o","r","k">>
SPEED_AGILITY == <<"s","p","e","e","d","_","a","g","i","l","i","t","y">>
None == <<"None">>
SessionTypes == {MATCH, BALL_WORK, SPEED_AGILITY}

UNCERTAIN_PREFIX == <<"u","n","c","e","r","t","a","i","n",":">>
BALL_WORK_LABEL == <<"b","a","l","l"," ","w","o","r","k">>
SPEED_LABEL == <<"s","p","e","e","d">>
AGILITY_LABEL == <<"a","g","i","l","i","t","y">>

-----------------------------------------------------------------------------
(* Responses of the handler *)

NoResponse == [status |-> 0, body |-> [pending |-> TRUE]]
NotApplied == [fn |-> "none", input |-> <<>>, output |-> [pending |-> TRUE]]
NoPeer == [pc |-> "absent"]
NoVerdict == [is_valid |-> FALSE, detected_type |-> None, confidence |-> "none"]

\* An error message: the fixed text of the f-string and the values
\* interpolated into it, each a sequence of characters or of words
Msg(text, args) == [text |-> text, args |-> args]

\* (a deliberately wrong variant: an error that carries a record)
ErrorResponse_WithData(msg, status) ==
    [status |-> status, body |-> [error |-> msg, data |-> [session |-> {}]]]

\* jsonify({"error": msg}), status
ErrorResponse(msg, status) == [status |-> status, body |-> [error |-> msg]]

\* jsonify({"success": True, "data": result, "ocr_text": response_text})
SuccessResponse(result, text) ==
    [status |-> 200,
     body |-> [success |-> TRUE, data |-> result, ocr_text |-> text]]

\* str(n) inside an f-string
Str(n) == <<ToString(n)>>

\* s.replace("_", " ").title(), server.py:197, 253-254
IsLetter(c) == \E i \in 1..26 : UpperCase[i] = c \/ LowerCase[i] = c
UpperChar(c) ==
    IF \E i \in 1..26 : LowerCase[i] = c
    THEN UpperCase[CHOOSE i \in 1..26 : LowerCase[i] = c]
    ELSE c
Title(s) ==
    [i \in 1..Len(s) |->
        IF i = 1 \/ ~IsLetter(s[i - 1]) THEN UpperChar(s[i]) ELSE LowerChar(s[i])]
Display(s) == Title([i \in 1..Len(s) |-> IF s[i] = "_" THEN " " ELSE s[i]])

-----------------------------------------------------------------------------
(* What a deployment and a request can be *)

ApiKeyModes == {"user", "server", "other"}
ServerKeys == {"", "sk-ant-server"}
FlaskEnvs == {"development", "production"}
FormKeys == {"", "sk-ant-user"}
ClaimedTypes == SessionTypes \cup {<<"M","a","t","c","h">>, None}

\* Uploads of n files: one-byte files, the last one exactly at, or one byte
\* over, the size ceiling.
Uploads ==
    { [i \in 1..n |-> [size |-> IF i = n THEN last ELSE 1]] :
        n \in 0..(MAX_FILES + 1),
        last \in {MAX_FILE_SIZE, MAX_FILE_SIZE + 1} }

\* A deployment with its own credential is sent none by the caller, and a
\* deployment that takes the caller's credential has none of its own.
Credentials ==
    { c \in [mode : ApiKeyModes, server_key : ServerKeys, form_key : FormKeys] :
        IF c.mode = "server" THEN c.form_key = "" ELSE c.server_key = "" }

Init ==
    /\ \E c \in Credentials :
        /\ API_KEY_MODE = c.mode
        /\ SERVER_API_KEY = c.server_key
        /\ form_api_key = c.form_key
    /\ FLASK_ENV \in FlaskEnvs
    /\ session_type \in ClaimedTypes
    /\ files \in Uploads
    /\ pos = [i \in 1..Len(files) |-> 0]
    /\ pc = "received"
    /\ verdict = NoVerdict
    /\ extraction_prompt = "none"
    /\ content = <<>>
    /\ calls = <<>>
    /\ response_text = <<>>
    /\ normalizer = "none"
    /\ response = NoResponse
    /\ applied = NotApplied
    /\ peer = NoPeer

-----------------------------------------------------------------------------
(* process_images, server.py:173-234: the checks before any outbound call *)

\* session_type_limits, server.py:188-192
HasTypeLimit(st) == st \in {SPEED_AGILITY, BALL_WORK}
\* (a deliberately wrong variant: the two limits exchanged)
TypeLimit_Swapped(st) ==
    IF st = SPEED_AGILITY THEN BALL_WORK_LIMIT ELSE SPEED_AGILITY_LIMIT
TypeLimit(st) == IF st = SPEED_AGILITY THEN SPEED_AGILITY_LIMIT ELSE BALL_WORK_LIMIT

\* server.py:209-219: the files the size loop visits: all of them, or the
\* files up to and including the first one over the ceiling
Oversize(fs) == { i \in 1..Len(fs) : fs[i].size > MAX_FILE_SIZE }
FirstOversize(fs) == CHOOSE i \in Oversize(fs) : \A j \in Oversize(fs) : i <= j

\* The credential the client is built with, server.py:222-231 ("" when the
\* handler returns instead)
ApiKey(mode, serverKey, formKey) == IF mode = "server" THEN serverKey ELSE formKey

\* The response of the checks at server.py:180-231, or NoResponse when the
\* request passes them all
InputCheck(st, fs, mode, serverKey, formKey) ==
    IF Len(fs) = 0
    THEN ErrorResponse(Msg("No images uploaded", <<>>), 400)
    ELSE IF Len(fs) > MAX_FILES
    THEN ErrorResponse(Msg("Too many files. Maximum {} allowed",
                           <<Str(MAX_FILES)>>), 400)
    ELSE IF HasTypeLimit(st) /\ Len(fs) > TypeLimit(st)
    THEN ErrorResponse(Msg("{} sessions should have at most {} images. You uploaded {}. Please check your session type selection.",
                           <<Display(st), Str(TypeLimit(st)), Str(Len(fs))>>), 400)
    ELSE IF Oversize(fs) # {}
    THEN ErrorResponse(Msg("File {} exceeds {}MB limit",
                           <<Str(FirstOversize(fs)),
                             Str(MAX_FILE_SIZE \div (1024 * 1024))>>), 400)
    ELSE IF mode = "server" /\ serverKey = ""
    THEN ErrorResponse(Msg("Server configuration error", <<>>), 500)
    ELSE IF mode # "server" /\ formKey = ""
    THEN ErrorResponse(Msg("API key is required", <<>>), 400)
    ELSE NoResponse

\* (a deliberately wrong variant: the classification call is issued before the checks)
ValidateRequest_CallFirst ==
    /\ pc = "received"
    /\ LET r == InputCheck(session_type, files, API_KEY_MODE, SERVER_API_KEY,
                           form_api_key)
       IN /\ response' = r
          /\ pc' = IF r = NoResponse THEN "build" ELSE "done"
    /\ calls' = IF Len(files) > 0
                THEN Append(calls, [purpose |-> "classification", model |-> "",
                                    max_tokens |-> 0, prompt |-> "", images |-> <<>>,
                                    outcome |-> "raise", error |-> "APIError"])
                ELSE calls
    /\ verdict' = [is_valid |-> TRUE, detected_type |-> session_type,
                   confidence |-> "validation_error"]
    /\ pos' = [i \in 1..Len(files) |-> 0]
    /\ UNCHANGED <<peer, applied, config, request, extraction_prompt, content,
                   response_text, normalizer>>

ValidateRequest ==
    /\ pc = "received"
    /\ LET r == InputCheck(session_type, files, API_KEY_MODE, SERVER_API_KEY,
                           form_api_key)
       IN /\ response' = r
          /\ pc' = IF r = NoResponse THEN "classify" ELSE "done"
    \* file.seek(0, 2); file.tell(); file.seek(0): every visited file is left
    \* at position 0
    /\ pos' = [i \in 1..Len(files) |-> 0]
    /\ UNCHANGED <<peer, applied, config, request, verdict, extraction_prompt, content, calls,
                   response_text, normalizer>>

-----------------------------------------------------------------------------
(* The vision service, as the handler sees it *)

SONNET == "claude-3-5-sonnet-20241022"
HAIKU == "claude-3-haiku-20240307"

\* What client.messages.create can do: raise (anthropic.AuthenticationError,
\* anthropic.RateLimitError, any other exception), return a message whose
\* content[0].text cannot be read, or return text.
ApiErrors == {"AuthenticationError", "RateLimitError", "APIError"}
Raises(e) == [kind |-> "raise", error |-> e, text |-> <<>>]
Unreadable == [kind |-> "unreadable", error |-> "IndexError", text |-> <<>>]
Returns(t) == [kind |-> "text", error |-> "", text |-> t]

\* Answers of the classifier
Answers ==
    { <<"M","a","t","c","h">>,
      <<"B","a","l","l"," ","W","o","r","k">>,
      <<"S","p","e","e","d"," ","a","n","d"," ","A","g","i","l","i","t","y">>,
      <<"u","n","c","e","r","t","a","i","n",":"," ","M","a","t","c","h">>,
      <<"u","n","c","e","r","t","a","i","n",":"," ","B","a","l","l"," ","W","o","r","k">>,
      <<"u","n","c","e","r","t","a","i","n",":"," ","S","p","e","e","d"," ","a","n","d"," ",
        "A","g","i","l","i","t","y">>,
      <<"U","n","c","e","r","t","a","i","n",":"," ","M","a","t","c","h","\n">>,
      <<"Y","o","g","a">>,
      <<"u","n","c","e","r","t","a","i","n",":"," ","Y","o","g","a">> }

ClassifyOutcomes ==
    {Raises(e) : e \in ApiErrors} \cup {Unreadable} \cup {Returns(a) : a \in Answers}

-----------------------------------------------------------------------------
(* validate_session_type, server.py:60-166 *)

VALIDATION_MAX_TOKENS == 50

\* (a deliberately wrong variant: the middle image is sampled from 3 images on)
SampleIndexes_FromThree(fs) == IF Len(fs) >= 3 THEN <<0, Len(fs) \div 2>> ELSE <<0>>

\* server.py:73-76: the sampled files, by their index in files (from 0)
SampleIndexes(fs) == IF Len(fs) > 3 THEN <<0, Len(fs) \div 2>> ELSE <<0>>

\* server.py:80-94: file.seek(0); file.read(); file.seek(0) for each sampled
\* file: the payload holds the bytes from position 0 to the end
ValidationContent(fs) ==
    [k \in 1..Len(SampleIndexes(fs)) |->
        [index |-> SampleIndexes(fs)[k], bytes |-> fs[SampleIndexes(fs)[k] + 1].size]]
\* (a deliberately wrong variant: without the second file.seek(0), a sampled
\* file is left at its end)
AfterSampling_NoReset(p, fs) ==
    [i \in 1..Len(fs) |->
        IF \E k \in 1..Len(SampleIndexes(fs)) : SampleIndexes(fs)[k] + 1 = i
        THEN fs[i].size ELSE p[i]]
AfterSampling(p, fs) ==
    [i \in 1..Len(fs) |->
        IF \E k \in 1..Len(SampleIndexes(fs)) : SampleIndexes(fs)[k] + 1 = i
        THEN 0 ELSE p[i]]

\* server.py:133-137: the call, with what the service did with it
ValidationCall(fs, outcome) ==
    [purpose |-> "classification",
     model |-> HAIKU,
     max_tokens |-> VALIDATION_MAX_TOKENS,
     prompt |-> "validation_prompt",
     images |-> ValidationContent(fs),
     outcome |-> outcome.kind,
     error |-> outcome.error]

\* (a deliberately wrong variant: "ball work" is looked for before "match")
NormalizeLabel_BallWorkFirst(d) ==
    IF Contains(d, BALL_WORK_LABEL) THEN BALL_WORK
    ELSE IF Contains(d, MATCH) THEN MATCH
    ELSE IF Contains(d, SPEED_LABEL) /\ Contains(d, AGILITY_LABEL) THEN SPEED_AGILITY
    ELSE d

\* server.py:147-152
NormalizeLabel(d) ==
    IF Contains(d, MATCH) THEN MATCH
    ELSE IF Contains(d, BALL_WORK_LABEL) THEN BALL_WORK
    ELSE IF Contains(d, SPEED_LABEL) /\ Contains(d, AGILITY_LABEL) THEN SPEED_AGILITY
    ELSE d

\* server.py:139-161, for the text the service returned
ParseAnswer(text, claimed_type) ==
    LET answer == Strip(text)
        is_uncertain == StartsWith(Lower(answer), UNCERTAIN_PREFIX)
        detected_type == NormalizeLabel(Lower(Strip(Remove(answer, UNCERTAIN_PREFIX))))
    IN [is_valid |-> detected_type = Lower(claimed_type),
        detected_type |-> detected_type,
        confidence |-> IF is_uncertain THEN "uncertain" ELSE "confident"]

\* server.py:163-166
FailOpen(claimed_type) ==
    [is_valid |-> TRUE, detected_type |-> claimed_type, confidence |-> "validation_error"]

\* (a deliberately wrong variant: a failed classification blocks the request)
Validate_FailClosed(outcome, claimed_type) ==
    IF outcome.kind # "text" \/ claimed_type = None
    THEN [is_valid |-> FALSE, detected_type |-> claimed_type, confidence |-> "confident"]
    ELSE ParseAnswer(outcome.text, claimed_type)

\* server.py:132-166: the try block.  Whatever is raised inside it is caught:
\* an error of the call, a message without readable text, and
\* claimed_type.lower() on a missing session type (None has no lower()).
Validate(outcome, claimed_type) ==
    IF outcome.kind # "text" \/ claimed_type = None
    THEN FailOpen(claimed_type)
    ELSE ParseAnswer(outcome.text, claimed_type)

-----------------------------------------------------------------------------
(* process_images, server.py:236-266: the decision on the verdict *)

\* (a deliberately wrong variant: the overlap excused in one direction only)
IsMatchBallworkConfusion_OneWay(st, v) ==
    st = BALL_WORK /\ v.detected_type = MATCH

\* server.py:242-244
IsMatchBallworkConfusion(st, v) ==
    \/ st = MATCH /\ v.detected_type = BALL_WORK
    \/ st = BALL_WORK /\ v.detected_type = MATCH

\* (a deliberately wrong variant: a mismatch is logged and the request goes on)
Rejected_Never(st, v) == FALSE

\* server.py:239-266
Rejected(st, v) ==
    /\ ~v.is_valid
    /\ ~(v.confidence = "uncertain" \/ IsMatchBallworkConfusion(st, v))

\* server.py:253-261
MismatchResponse(st, v) ==
    ErrorResponse(Msg("Session type mismatch: Images appear to be '{}' but you selected '{}'. Please verify your selection.",
                      <<Display(v.detected_type), Display(st)>>), 400)

Classify ==
    /\ pc = "classify"
    /\ \E outcome \in ClassifyOutcomes :
        LET v == Validate(outcome, session_type)
        IN /\ calls' = Append(calls, ValidationCall(files, outcome))
           /\ verdict' = v
           /\ IF Rejected(session_type, v)
              THEN /\ response' = MismatchResponse(session_type, v)
                   /\ pc' = "done"
              ELSE /\ response' = response
                   /\ pc' = "build"
    /\ pos' = AfterSampling(pos, files)
    /\ UNCHANGED <<peer, applied, config, request, extraction_prompt, content, response_text,
                   normalizer>>

-----------------------------------------------------------------------------
(* The result normalizers, server.py:901-1049 *)

\* Python's None, and JSON's null
Null == "<null>"

\* (a deliberately wrong variant: a missing key reads as 0)
Get_Zero(data, key) == IF key \in DOMAIN data THEN data[key] ELSE "0"

\* data.get(key): the value of the key, None when the object has no such key
Get(data, key) == IF key \in DOMAIN data THEN data[key] ELSE Null

\* format_match_result, server.py:901-981
format_match_result(data) ==
    [session |-> [session_name |-> Get(data, "session_name"),
         date |-> Get(data, "date"),
         duration_minutes |-> Get(data, "duration_minutes"),
         training_type |-> "Match"],
     overview |-> [position |-> Get(data, "position"),
         goals |-> Get(data, "goals"),
         assists |-> Get(data, "assists"),
         athlete_team_score |-> Get(data, "athlete_team_score"),
         opposing_team_score |-> Get(data, "opposing_team_score"),
         opposing_team_name |-> Get(data, "opposing_team_name")],
     skills |-> [two_footed_score |-> Get(data, "two_footed_score"),
         dribbling_score |-> Get(data, "dribbling_score"),
         first_touch_score |-> Get(data, "first_touch_score"),
         agility_score |-> Get(data, "agility_score"),
         speed_score |-> Get(data, "speed_score"),
         power_score |-> Get(data, "power_score")],
     highlights |-> [work_rate_yd_per_min |-> Get(data, "work_rate"),
         ball_possessions |-> Get(data, "ball_possessions"),
         total_distance_mi |-> Get(data, "total_distance"),
         sprint_distance_yd |-> Get(data, "sprint_distance"),
         top_speed_mph |-> Get(data, "top_speed"),
         kicking_power_mph |-> Get(data, "kicking_power")],
     two_footed |-> [left_foot_touches |-> Get(data, "left_touches"),
         left_foot_touches_pct |-> Get(data, "left_touches_pct"),
         right_foot_touches |-> Get(data, "right_touches"),
         right_foot_touches_pct |-> Get(data, "right_touches_pct"),
         left_foot_releases |-> Get(data, "left_releases"),
         left_foot_releases_pct |-> Get(data, "left_releases_pct"),
         right_foot_releases |-> Get(data, "right_releases"),
         right_foot_releases_pct |-> Get(data, "right_releases_pct"),
         left_foot_receives |-> Get(data, "left_receives"),
         left_foot_receives_pct |-> Get(data, "left_receives_pct"),
         right_foot_receives |-> Get(data, "right_receives"),
         right_foot_receives_pct |-> Get(data, "right_receives_pct"),
         left_foot_kicking_power_mph |-> Get(data, "left_kicking_power"),
         right_foot_kicking_power_mph |-> Get(data, "right_kicking_power")],
     dribbling |-> [distance_with_ball_yd |-> Get(data, "distance_with_ball"),
         top_speed_with_ball_mph |-> Get(data, "top_speed_with_ball"),
         intense_turns_with_ball |-> Get(data, "intense_turns_with_ball")],
     first_touch |-> [ball_possessions |-> [total |-> Get(data, "ball_possessions"),
             one_touch |-> Get(data, "one_touch_poss"),
             multiple_touch |-> Get(data, "multiple_touch_poss"),
             total_duration_sec |-> Get(data, "total_duration_sec")],
         ball_release_footzone |-> [laces |-> Get(data, "laces"),
             inside |-> Get(data, "inside"),
             other |-> Get(data, "other_footzone")]],
     agility |-> [left_turns |-> Get(data, "left_turns"),
         back_turns |-> Get(data, "back_turns"),
         right_turns |-> Get(data, "right_turns"),
         intense_turns |-> Get(data, "intense_turns"),
         avg_turn_entry_speed_mph |-> Get(data, "avg_turn_entry"),
         avg_turn_exit_speed_mph |-> Get(data, "avg_turn_exit")],
     speed |-> [top_speed_mph |-> Get(data, "top_speed"),
         sprints |-> Get(data, "num_sprints")],
     power |-> [first_step_accelerations |-> Get(data, "first_step_accel"),
         intense_accelerations |-> Get(data, "intense_accel")]]

\* format_ball_work_result, server.py:984-1022
format_ball_work_result(data) ==
    [session |-> [session_name |-> Get(data, "session_name"),
         date |-> Get(data, "date"),
         duration_minutes |-> Get(data, "duration_minutes"),
         training_type |-> Get(data, "training_type"),
         intensity |-> Get(data, "intensity")],
     highlights |-> [ball_touches |-> Get(data, "ball_touches"),
         total_distance_miles |-> Get(data, "total_distance"),
         sprint_distance_yards |-> Get(data, "sprint_distance"),
         accl_decl |-> Get(data, "accelerations"),
         kicking_power_mph |-> Get(data, "kicking_power")],
     two_footed |-> [left_foot_touches |-> Get(data, "left_touches"),
         left_foot_touches_percentage |-> Get(data, "left_pct"),
         right_foot_touches |-> Get(data, "right_touches"),
         right_foot_touches_percentage |-> Get(data, "right_pct"),
         left_foot_releases |-> Get(data, "left_releases"),
         left_foot_releases_percentage |-> Get(data, "left_release_pct"),
         right_foot_releases |-> Get(data, "right_releases"),
         right_foot_releases_percentage |-> Get(data, "right_release_pct"),
         left_foot_kicking_power_mph |-> Get(data, "left_kicking_power"),
         right_foot_kicking_power_mph |-> Get(data, "right_kicking_power")],
     speed |-> [top_speed_mph |-> Get(data, "top_speed"),
         sprints |-> Get(data, "num_sprints")],
     agility |-> [left_turns |-> Get(data, "left_turns"),
         back_turns |-> Get(data, "back_turns"),
         right_turns |-> Get(data, "right_turns"),
         intense_turns |-> Get(data, "intense_turns"),
         average_turn_entry_speed_mph |-> Get(data, "avg_turn_entry"),
         average_turn_exit_speed_mph |-> Get(data, "avg_turn_exit")]]

\* format_speed_agility_result, server.py:1025-1049
format_speed_agility_result(data) ==
    [session |-> [session_name |-> Get(data, "session_name"),
         date |-> Get(data, "date"),
         duration_minutes |-> Get(data, "duration_minutes"),
         training_type |-> Get(data, "training_type"),
         intensity |-> Get(data, "intensity")],
     highlights |-> [total_distance_miles |-> Get(data, "total_distance"),
         sprint_distance_yards |-> Get(data, "sprint_distance"),
         accl_decl |-> Get(data, "accelerations")],
     speed |-> [top_speed_mph |-> Get(data, "top_speed"),
         sprints |-> Get(data, "num_sprints")],
     agility |-> [left_turns |-> Get(data, "left_turns"),
         back_turns |-> Get(data, "back_turns"),
         right_turns |-> Get(data, "right_turns"),
         intense_turns |-> Get(data, "intense_turns"),
         average_turn_entry_speed_mph |-> Get(data, "avg_turn_entry"),
         average_turn_exit_speed_mph |-> Get(data, "avg_turn_exit")]]

-----------------------------------------------------------------------------
(* The text-mode extractors, server.py:483-879.  Each assigns every local   *)
(* from one pattern search on the lower-cased text and returns a fixed      *)
(* dict of the locals.  `found` maps the locals whose pattern matched to the*)
(* value captured; a local whose pattern did not match is None, or the      *)
(* default the code passes to extract_value.                                *)

Local(found, name) == IF name \in DOMAIN found THEN found[name] ELSE Null
\* a or b: b when a is None or 0, else a
PyOr(a, b) == IF a \in {Null, "0"} THEN b ELSE a
\* extract_number(text, specific) or extract_number(text, fallback),
\* server.py:522-537, 729-753
Chained(found, specific, fallback) ==
    PyOr(Local(found, specific), Local(found, fallback))
LocalOr(found, name, default) == IF name \in DOMAIN found THEN found[name] ELSE default

\* extract_ball_work_data, server.py:483-590
extract_ball_work_data(found) ==
    [session |-> [session_name |-> Local(found, "session_name"),
         date |-> Local(found, "date_str"),
         duration_minutes |-> Local(found, "duration"),
         training_type |-> LocalOr(found, "training_type", "Technical"),
         intensity |-> LocalOr(found, "intensity", "Moderate")],
     highlights |-> [ball_touches |-> Local(found, "ball_touches"),
         total_distance_miles |-> Local(found, "total_distance"),
         sprint_distance_yards |-> Local(found, "sprint_distance"),
         accl_decl |-> Local(found, "accl_decl"),
         kicking_power_mph |-> Local(found, "kicking_power")],
     two_footed |-> [left_foot_touches |-> Local(found, "left_touches"),
         left_foot_touches_percentage |-> Chained(found, "left_touches_pct", "left_touches_pct_fallback"),
         right_foot_touches |-> Local(found, "right_touches"),
         right_foot_touches_percentage |-> Chained(found, "right_touches_pct", "right_touches_pct_fallback"),
         left_foot_releases |-> Local(found, "left_releases"),
         left_foot_releases_percentage |-> Chained(found, "left_releases_pct", "left_releases_pct_fallback"),
         right_foot_releases |-> Local(found, "right_releases"),
         right_foot_releases_percentage |-> Chained(found, "right_releases_pct", "right_releases_pct_fallback"),
         left_foot_kicking_power_mph |-> Local(found, "left_kicking"),
         right_foot_kicking_power_mph |-> Local(found, "right_kicking")],
     speed |-> [top_speed_mph |-> Local(found, "top_speed"),
         sprints |-> Local(found, "sprints")],
     agility |-> [left_turns |-> Local(found, "left_turns"),
         back_turns |-> Local(found, "back_turns"),
         right_turns |-> Local(found, "right_turns"),
         intense_turns |-> Local(found, "intense_turns"),
         average_turn_entry_speed_mph |-> Local(found, "entry_speed"),
         average_turn_exit_speed_mph |-> Local(found, "exit_speed")]]

\* extract_speed_agility_data, server.py:593-662
extract_speed_agility_data(found) ==
    [session |-> [session_name |-> Local(found, "session_name"),
         date |-> Local(found, "date_str"),
         duration_minutes |-> Local(found, "duration"),
         training_type |-> LocalOr(found, "training_type", "Physical"),
         intensity |-> LocalOr(found, "intensity", "Moderate")],
     highlights |-> [total_distance_miles |-> Local(found, "total_distance"),
         sprint_distance_yards |-> Local(found, "sprint_distance"),
         accl_decl |-> Local(found, "accl_decl")],
     speed |-> [top_speed_mph |-> Local(found, "top_speed"),
         sprints |-> Local(found, "sprints")],
     agility |-> [left_turns |-> Local(found, "left_turns"),
         back_turns |-> Local(found, "back_turns"),
         right_turns |-> Local(found, "right_turns"),
         intense_turns |-> Local(found, "intense_turns"),
         average_turn_entry_speed_mph |-> Local(found, "entry_speed"),
         average_turn_exit_speed_mph |-> Local(found, "exit_speed")]]

\* extract_match_data, server.py:665-879
extract_match_data(found) ==
    [session |-> [session_name |-> Local(found, "session_name"),
         date |-> Local(found, "date_str"),
         duration_minutes |-> Local(found, "duration"),
         training_type |-> "Match"],
     overview |-> [position |-> Local(found, "position"),
         goals |-> Local(found, "goals"),
         assists |-> Local(found, "assists"),
         athlete_team_score |-> Local(found, "athlete_score"),
         opposing_team_score |-> Local(found, "opposing_score"),
         opposing_team_name |-> Local(found, "opposing_team_name")],
     skills |-> [two_footed_score |-> Local(found, "two_footed"),
         dribbling_score |-> Local(found, "dribbling"),
         first_touch_score |-> Local(found, "first_touch"),
         agility_score |-> Local(found, "agility_score"),
         speed_score |-> Local(found, "speed_score"),
         power_score |-> Local(found, "power_score")],
     highlights |-> [work_rate_yd_per_min |-> Local(found, "work_rate"),
         ball_possessions |-> Local(found, "ball_possessions"),
         total_distance_mi |-> Local(found, "total_distance"),
         sprint_distance_yd |-> Local(found, "sprint_distance"),
         top_speed_mph |-> Local(found, "top_speed"),
         kicking_power_mph |-> Local(found, "kicking_power")],
     two_footed |-> [left_foot_touches |-> Local(found, "left_touches"),
         left_foot_touches_pct |-> Chained(found, "left_touches_pct", "left_touches_pct_fallback"),
         right_foot_touches |-> Local(found, "right_touches"),
         right_foot_touches_pct |-> Chained(found, "right_touches_pct", "right_touches_pct_fallback"),
         left_foot_releases |-> Local(found, "left_releases"),
         left_foot_releases_pct |-> Chained(found, "left_releases_pct", "left_releases_pct_fallback"),
         right_foot_releases |-> Local(found, "right_releases"),
         right_foot_releases_pct |-> Chained(found, "right_releases_pct", "right_releases_pct_fallback"),
         left_foot_receives |-> Local(found, "left_receives"),
         left_foot_receives_pct |-> Chained(found, "left_receives_pct", "left_receives_pct_fallback"),
         right_foot_receives |-> Local(found, "right_receives"),
         right_foot_receives_pct |-> Chained(found, "right_receives_pct", "right_receives_pct_fallback"),
         left_foot_kicking_power_mph |-> Local(found, "left_kicking"),
         right_foot_kicking_power_mph |-> Local(found, "right_kicking")],
     dribbling |-> [distance_with_ball_yd |-> Local(found, "distance_with_ball"),
         top_speed_with_ball_mph |-> Local(found, "top_speed_with_ball"),
         intense_turns_with_ball |-> Local(found, "intense_turns_with_ball")],
     first_touch |-> [ball_possessions |-> [total |-> Local(found, "ball_possessions"),
             one_touch |-> Local(found, "one_touch_poss"),
             multiple_touch |-> Local(found, "multiple_touch_poss"),
             total_duration_sec |-> Local(found, "total_duration_sec")],
         ball_release_footzone |-> [laces |-> Local(found, "laces"),
             inside |-> Local(found, "inside"),
             other |-> Local(found, "other_footzone")]],
     agility |-> [left_turns |-> Local(found, "left_turns"),
         back_turns |-> Local(found, "back_turns"),
         right_turns |-> Local(found, "right_turns"),
         intense_turns |-> Local(found, "intense_turns"),
         avg_turn_entry_speed_mph |-> Local(found, "entry_speed"),
         avg_turn_exit_speed_mph |-> Local(found, "exit_speed")],
     speed |-> [top_speed_mph |-> Local(found, "top_speed"),
         sprints |-> Local(found, "sprints")],
     power |-> [first_step_accelerations |-> Local(found, "first_step_accel"),
         intense_accelerations |-> Local(found, "intense_accel")]]

-----------------------------------------------------------------------------
(* process_images, server.py:465-480: the handler's except clauses *)

\* The response for an exception that reaches the outer try
HandleException(error, mode, env) ==
    IF error = "AuthenticationError"
    THEN ErrorResponse(Msg(IF mode = "user" THEN "Invalid API key"
                                            ELSE "Server API key invalid", <<>>), 401)
    ELSE IF error = "RateLimitError"
    THEN ErrorResponse(Msg("Rate limit exceeded. Try again later.", <<>>), 429)
    ELSE IF env = "development"
    THEN ErrorResponse(Msg("{}: {}", <<<<error>>, <<"str(e)">>>>), 500)
    ELSE ErrorResponse(Msg("Processing error occurred", <<>>), 500)

-----------------------------------------------------------------------------
(* process_images, server.py:268-408: the instruction and the payload *)

\* server.py:269, 330, 364: the template is chosen by if / elif / else
Template(st) ==
    IF st = MATCH THEN "match template"
    ELSE IF st = BALL_WORK THEN "ball_work template"
    ELSE "speed_agility template"

\* The JSON keys that each template enumerates
\* server.py:270-329, in the order of the template
MatchTemplateKeys ==
    {"date", "session_name", "duration_minutes", "position", "goals",
     "assists", "athlete_team_score", "opposing_team_score",
     "opposing_team_name", "two_footed_score", "dribbling_score",
     "first_touch_score", "agility_score", "speed_score", "power_score",
     "work_rate", "ball_possessions", "total_distance", "sprint_distance",
     "top_speed", "kicking_power", "left_touches", "left_touches_pct",
     "right_touches", "right_touches_pct", "left_releases",
     "left_releases_pct", "right_releases", "right_releases_pct",
     "left_receives", "left_receives_pct", "right_receives",
     "right_receives_pct", "left_kicking_power", "right_kicking_power",
     "distance_with_ball", "top_speed_with_ball", "intense_turns_with_ball",
     "one_touch_poss", "multiple_touch_poss", "total_duration_sec", "laces",
     "inside", "other_footzone", "left_turns", "back_turns", "right_turns",
     "intense_turns", "avg_turn_entry", "avg_turn_exit", "num_sprints",
     "first_step_accel", "intense_accel"}
\* server.py:331-363, in the order of the template
BallWorkTemplateKeys ==
    {"date", "session_name", "duration_minutes", "training_type",
     "intensity", "ball_touches", "total_distance", "sprint_distance",
     "accelerations", "kicking_power", "left_touches", "left_pct",
     "right_touches", "right_pct", "left_releases", "left_release_pct",
     "right_releases", "right_release_pct", "left_kicking_power",
     "right_kicking_power", "top_speed", "num_sprints", "left_turns",
     "back_turns", "right_turns", "intense_turns", "avg_turn_entry",
     "avg_turn_exit"}
\* (a deliberately wrong variant: a template that does not ask for the
\* number of sprints)
SpeedAgilityTemplateKeys_Short ==
    {"date", "session_name", "duration_minutes", "training_type",
     "intensity", "total_distance", "sprint_distance", "accelerations",
     "top_speed", "left_turns", "back_turns", "right_turns",
     "intense_turns", "avg_turn_entry", "avg_turn_exit"}
\* server.py:365-385, in the order of the template
SpeedAgilityTemplateKeys ==
    {"date", "session_name", "duration_minutes", "training_type",
     "intensity", "total_distance", "sprint_distance", "accelerations",
     "top_speed", "num_sprints", "left_turns", "back_turns", "right_turns",
     "intense_turns", "avg_turn_entry", "avg_turn_exit"}
TemplateKeys(t) ==
    CASE t = "match template" -> MatchTemplateKeys
      [] t = "ball_work template" -> BallWorkTemplateKeys
      [] t = "speed_agility template" -> SpeedAgilityTemplateKeys

\* server.py:391-405: file.read() from the file's position to its end
ExtractionContent(fs, p) ==
    [i \in 1..Len(fs) |-> [index |-> i - 1, bytes |-> fs[i].size - p[i]]]

\* (a deliberately wrong variant: the template of the detected type)
BuildRequest_Detected ==
    /\ pc = "build"
    /\ extraction_prompt' = Template(verdict.detected_type)
    /\ content' = ExtractionContent(files, pos)
    /\ pos' = [i \in 1..Len(files) |-> files[i].size]
    /\ pc' = "extract_primary"
    /\ UNCHANGED <<peer, applied, config, request, verdict, calls, response_text, normalizer,
                   response>>

BuildRequest ==
    /\ pc = "build"
    /\ extraction_prompt' = Template(session_type)
    /\ content' = ExtractionContent(files, pos)
    /\ pos' = [i \in 1..Len(files) |-> files[i].size]
    /\ pc' = "extract_primary"
    /\ UNCHANGED <<peer, applied, config, request, verdict, calls, response_text, normalizer,
                   response>>

-----------------------------------------------------------------------------
(* The extraction response: a sequence of tokens *)

LBRACE == [t |-> "{", key |-> "", value |-> ""]
RBRACE == [t |-> "}", key |-> "", value |-> ""]
PROSE == [t |-> "prose", key |-> "", value |-> ""]
\* one member of a JSON object, "key": value, with the comma that separates
\* it from the next
Member(k, v) == [t |-> "member", key |-> k, value |-> v]

RECURSIVE SeqsUpTo(_, _)
SeqsUpTo(S, n) ==
    IF n = 0 THEN {<<>>}
    ELSE LET shorter == SeqsUpTo(S, n - 1)
         IN shorter \cup {Append(q, x) : q \in shorter, x \in S}

\* "Here is the data: {"date": "2024-03-05", "goals": 2} Thanks!"
WrappedExample ==
    <<PROSE, LBRACE, Member("date", "2024-03-05"), Member("goals", "2"), RBRACE, PROSE>>
\* "{ sorry }"
BrokenExample == <<LBRACE, PROSE, RBRACE>>

Tokens == {LBRACE, RBRACE, PROSE, Member("goals", "2")}

ResponseTexts == SeqsUpTo(Tokens, MaxTextLen) \cup {WrappedExample, BrokenExample}

ExtractOutcomes ==
    {Raises(e) : e \in ApiErrors} \cup {Unreadable} \cup {Returns(t) : t \in ResponseTexts}

-----------------------------------------------------------------------------
(* process_images, server.py:410-430: the two extraction calls *)

EXTRACTION_MAX_TOKENS == 4096

\* server.py:413-417, 422-426: the call, with what the service did with it
ExtractionCall(model, prompt, images, outcome) ==
    [purpose |-> "extraction",
     model |-> model,
     max_tokens |-> EXTRACTION_MAX_TOKENS,
     prompt |-> prompt,
     images |-> images,
     outcome |-> outcome.kind,
     error |-> outcome.error]

\* server.py:429: message.content[0].text; an IndexError reaches the outer
\* except Exception
ReadMessage(outcome) ==
    IF outcome.kind = "text"
    THEN /\ response_text' = outcome.text
         /\ pc' = "normalize"
         /\ response' = response
    ELSE /\ response_text' = response_text
         /\ pc' = "done"
         /\ response' = HandleException(outcome.error, API_KEY_MODE, FLASK_ENV)

\* server.py:412-419
CallPrimary ==
    /\ pc = "extract_primary"
    /\ \E outcome \in ExtractOutcomes :
        /\ calls' = Append(calls, ExtractionCall(SONNET, extraction_prompt, content, outcome))
        /\ IF outcome.kind = "raise"
           THEN /\ pc' = "extract_fallback"
                /\ UNCHANGED <<response_text, response>>
           ELSE ReadMessage(outcome)
    /\ UNCHANGED <<peer, applied, config, request, pos, verdict, extraction_prompt, content,
                   normalizer>>

\* (a deliberately wrong variant: a failed fallback call is tried again)
CallFallback_Again ==
    /\ pc = "extract_fallback"
    /\ \E outcome \in ExtractOutcomes :
        /\ calls' = Append(calls, ExtractionCall(HAIKU, extraction_prompt, content, outcome))
        /\ IF outcome.kind = "raise"
           THEN /\ pc' = "extract_fallback"
                /\ UNCHANGED <<response_text, response>>
           ELSE ReadMessage(outcome)
    /\ UNCHANGED <<peer, applied, config, request, pos, verdict, extraction_prompt, content,
                   normalizer>>

\* (a deliberately wrong variant: when the fallback call raises too, the
\* primary call's exception is the one raised again)
CallFallback_FirstError ==
    /\ pc = "extract_fallback"
    /\ \E outcome \in ExtractOutcomes :
        /\ calls' = Append(calls, ExtractionCall(HAIKU, extraction_prompt, content, outcome))
        /\ ReadMessage(IF outcome.kind = "raise"
                       THEN Raises(calls[Len(calls)].error) ELSE outcome)
    /\ UNCHANGED <<peer, applied, config, request, pos, verdict, extraction_prompt, content,
                   normalizer>>

\* server.py:419-427: an exception of the fallback call reaches the outer try
CallFallback ==
    /\ pc = "extract_fallback"
    /\ \E outcome \in ExtractOutcomes :
        /\ calls' = Append(calls, ExtractionCall(HAIKU, extraction_prompt, content, outcome))
        /\ ReadMessage(outcome)
    /\ UNCHANGED <<peer, applied, config, request, pos, verdict, extraction_prompt, content,
                   normalizer>>

-----------------------------------------------------------------------------
(* process_images, server.py:432-463: parse, format, respond *)

\* response_text.find("{"): the index (from 0) of the first "{", or -1
Find(text) ==
    IF \E i \in 1..Len(text) : text[i] = LBRACE
    THEN (CHOOSE i \in 1..Len(text) :
            text[i] = LBRACE /\ \A j \in 1..(i - 1) : text[j] # LBRACE) - 1
    ELSE -1

\* (a deliberately wrong variant: the first "}" instead of the last)
RFind_First(text) ==
    IF \E i \in 1..Len(text) : text[i] = RBRACE
    THEN (CHOOSE i \in 1..Len(text) :
            text[i] = RBRACE /\ \A j \in 1..(i - 1) : text[j] # RBRACE) - 1
    ELSE -1

\* response_text.rfind("}"): the index (from 0) of the last "}", or -1
RFind(text) ==
    IF \E i \in 1..Len(text) : text[i] = RBRACE
    THEN (CHOOSE i \in 1..Len(text) :
            text[i] = RBRACE /\ \A j \in (i + 1)..Len(text) : text[j] # RBRACE) - 1
    ELSE -1

\* response_text[start:end]
Slice(text, start, end) == SubSeq(text, start + 1, end)

\* json.loads on a span that starts with "{": it parses when the span is
\* one object, a "{", members, and a "}"
Parses(span) ==
    /\ Len(span) >= 2
    /\ span[1] = LBRACE
    /\ span[Len(span)] = RBRACE
    /\ \A i \in 2..(Len(span) - 1) : span[i].t = "member"

\* The dict json.loads returns: of a repeated key the last value
JsonLoads(span) ==
    LET members == {i \in 2..(Len(span) - 1) : TRUE}
        keys == {span[i].key : i \in members}
        last(k) == CHOOSE i \in members :
                       span[i].key = k /\ \A j \in members : span[j].key = k => j <= i
    IN [k \in keys |-> span[last(k)].value]

\* server.py:453-460
Format(st, data) ==
    IF st = BALL_WORK THEN format_ball_work_result(data)
    ELSE IF st = SPEED_AGILITY THEN format_speed_agility_result(data)
    ELSE format_match_result(data)
\* (a deliberately wrong variant: any other session type is formatted as a
\* match)
Formatter_Default(st) ==
    IF st = BALL_WORK THEN "format_ball_work_result"
    ELSE IF st = SPEED_AGILITY THEN "format_speed_agility_result"
    ELSE "format_match_result"
Formatter(st) ==
    IF st = BALL_WORK THEN "format_ball_work_result"
    ELSE IF st = SPEED_AGILITY THEN "format_speed_agility_result"
    ELSE IF st = MATCH THEN "format_match_result"
    ELSE "none"

\* server.py:437-449: the span, when there is one
HasSpan(text) == Find(text) >= 0 /\ RFind(text) + 1 > Find(text)
Span(text) == Slice(text, Find(text), RFind(text) + 1)

\* server.py:432-463
Respond(st, text) ==
    IF ~HasSpan(text)
    THEN ErrorResponse(Msg("Failed to extract JSON from response", <<>>), 500)
    ELSE IF ~Parses(Span(text))
    THEN ErrorResponse(Msg("Invalid JSON response: {}", <<<<"str(e)">>>>), 500)
    ELSE IF Formatter(st) = "none"
    THEN ErrorResponse(Msg("Invalid session type", <<>>), 400)
    ELSE SuccessResponse(Format(st, JsonLoads(Span(text))), text)

\* (a deliberately wrong variant: a response without a JSON object goes to the text-mode extractor)
Dispatch_TextFallback(st, text) ==
    IF HasSpan(text) /\ Parses(Span(text)) THEN Formatter(st)
    ELSE IF st = BALL_WORK THEN "extract_ball_work_data"
    ELSE IF st = SPEED_AGILITY THEN "extract_speed_agility_data"
    ELSE "extract_match_data"

\* server.py:437-460: the function the parsed object is handed to ("none":
\* the handler returns before it calls one)
Dispatch(st, text) ==
    IF HasSpan(text) /\ Parses(Span(text)) THEN Formatter(st) ELSE "none"

Normalize ==
    /\ pc = "normalize"
    /\ response' = Respond(session_type, response_text)
    /\ normalizer' = Dispatch(session_type, response_text)
    /\ pc' = "done"
    /\ UNCHANGED <<peer, applied, config, request, pos, verdict, extraction_prompt, content,
                   calls, response_text>>

-----------------------------------------------------------------------------
(* The parse step on its own: process_images from server.py:432 on, in a    *)
(* request of one image whose classification failed open and whose primary  *)
(* extraction call returned the text.                                       *)

OneImage == <<[size |-> MAX_FILE_SIZE]>>

InitNormalize ==
    /\ API_KEY_MODE = "user"
    /\ SERVER_API_KEY = ""
    /\ form_api_key = "sk-ant-user"
    /\ FLASK_ENV = "production"
    /\ session_type \in ClaimedTypes
    /\ files = OneImage
    /\ pos = <<MAX_FILE_SIZE>>
    /\ pc = "normalize"
    /\ verdict = FailOpen(session_type)
    /\ extraction_prompt = Template(session_type)
    /\ content = ExtractionContent(OneImage, <<0>>)
    /\ response_text \in SeqsUpTo(Tokens, MaxParseLen)
    /\ calls = <<ValidationCall(OneImage, Raises("APIError")),
                 ExtractionCall(SONNET, extraction_prompt, content,
                                Returns(response_text))>>
    /\ normalizer = "none"
    /\ response = NoResponse
    /\ applied = NotApplied
    /\ peer = NoPeer

SpecNormalize == InitNormalize /\ [][Normalize]_vars

-----------------------------------------------------------------------------
(* The normalizer functions on their own *)

\* The sections and fields of a match record, server.py:903-981 and 805-879
MatchSchema ==
    [session |->
        {"session_name", "date", "duration_minutes", "training_type"},
     overview |->
        {"position", "goals", "assists", "athlete_team_score",
         "opposing_team_score", "opposing_team_name"},
     skills |->
        {"two_footed_score", "dribbling_score", "first_touch_score",
         "agility_score", "speed_score", "power_score"},
     highlights |->
        {"work_rate_yd_per_min", "ball_possessions", "total_distance_mi",
         "sprint_distance_yd", "top_speed_mph", "kicking_power_mph"},
     two_footed |->
        {"left_foot_touches", "left_foot_touches_pct", "right_foot_touches",
         "right_foot_touches_pct", "left_foot_releases",
         "left_foot_releases_pct", "right_foot_releases",
         "right_foot_releases_pct", "left_foot_receives",
         "left_foot_receives_pct", "right_foot_receives",
         "right_foot_receives_pct", "left_foot_kicking_power_mph",
         "right_foot_kicking_power_mph"},
     dribbling |->
        {"distance_with_ball_yd", "top_speed_with_ball_mph",
         "intense_turns_with_ball"},
     first_touch |->
        [ball_possessions |-> {"total", "one_touch", "multiple_touch", "total_duration_sec"},
         ball_release_footzone |-> {"laces", "inside", "other"}],
     agility |->
        {"left_turns", "back_turns", "right_turns", "intense_turns",
         "avg_turn_entry_speed_mph", "avg_turn_exit_speed_mph"},
     speed |->
        {"top_speed_mph", "sprints"},
     power |->
        {"first_step_accelerations", "intense_accelerations"}]

\* The sections and fields of a ball work record, server.py:986-1022 and 554-590
BallWorkSchema ==
    [session |->
        {"session_name", "date", "duration_minutes", "training_type",
         "intensity"},
     highlights |->
        {"ball_touches", "total_distance_miles", "sprint_distance_yards",
         "accl_decl", "kicking_power_mph"},
     two_footed |->
        {"left_foot_touches", "left_foot_touches_percentage",
         "right_foot_touches", "right_foot_touches_percentage",
         "left_foot_releases", "left_foot_releases_percentage",
         "right_foot_releases", "right_foot_releases_percentage",
         "left_foot_kicking_power_mph", "right_foot_kicking_power_mph"},
     speed |->
        {"top_speed_mph", "sprints"},
     agility |->
        {"left_turns", "back_turns", "right_turns", "intense_turns",
         "average_turn_entry_speed_mph", "average_turn_exit_speed_mph"}]

\* The sections and fields of a speed and agility record, server.py:1027-1049
\* and 640-662
SpeedAgilitySchema ==
    [session |->
        {"session_name", "date", "duration_minutes", "training_type",
         "intensity"},
     highlights |->
        {"total_distance_miles", "sprint_distance_yards", "accl_decl"},
     speed |->
        {"top_speed_mph", "sprints"},
     agility |->
        {"left_turns", "back_turns", "right_turns", "intense_turns",
         "average_turn_entry_speed_mph", "average_turn_exit_speed_mph"}]

\* The keys format_match_result looks up
MatchRawKeys ==
    {"agility_score", "assists", "athlete_team_score", "avg_turn_entry",
     "avg_turn_exit", "back_turns", "ball_possessions", "date",
     "distance_with_ball", "dribbling_score", "duration_minutes",
     "first_step_accel", "first_touch_score", "goals", "inside",
     "intense_accel", "intense_turns", "intense_turns_with_ball",
     "kicking_power", "laces", "left_kicking_power", "left_receives",
     "left_receives_pct", "left_releases", "left_releases_pct",
     "left_touches", "left_touches_pct", "left_turns",
     "multiple_touch_poss", "num_sprints", "one_touch_poss",
     "opposing_team_name", "opposing_team_score", "other_footzone",
     "position", "power_score", "right_kicking_power", "right_receives",
     "right_receives_pct", "right_releases", "right_releases_pct",
     "right_touches", "right_touches_pct", "right_turns", "session_name",
     "speed_score", "sprint_distance", "top_speed", "top_speed_with_ball",
     "total_distance", "total_duration_sec", "two_footed_score", "work_rate"}

\* The keys format_ball_work_result looks up
BallWorkRawKeys ==
    {"accelerations", "avg_turn_entry", "avg_turn_exit", "back_turns",
     "ball_touches", "date", "duration_minutes", "intense_turns",
     "intensity", "kicking_power", "left_kicking_power", "left_pct",
     "left_release_pct", "left_releases", "left_touches", "left_turns",
     "num_sprints", "right_kicking_power", "right_pct", "right_release_pct",
     "right_releases", "right_touches", "right_turns", "session_name",
     "sprint_distance", "top_speed", "total_distance", "training_type"}

\* The keys format_speed_agility_result looks up
SpeedAgilityRawKeys ==
    {"accelerations", "avg_turn_entry", "avg_turn_exit", "back_turns",
     "date", "duration_minutes", "intense_turns", "intensity", "left_turns",
     "num_sprints", "right_turns", "session_name", "sprint_distance",
     "top_speed", "total_distance", "training_type"}

\* The percentages that have two patterns: the local that holds what the
\* specific pattern captured, and what the looser pattern captures
BallWorkPercentPatterns ==
    {<<"left_touches_pct", "left_touches_pct_fallback">>,
     <<"right_touches_pct", "right_touches_pct_fallback">>,
     <<"left_releases_pct", "left_releases_pct_fallback">>,
     <<"right_releases_pct", "right_releases_pct_fallback">>}
MatchPercentPatterns ==
    BallWorkPercentPatterns \cup
    {<<"left_receives_pct", "left_receives_pct_fallback">>,
     <<"right_receives_pct", "right_receives_pct_fallback">>}

\* The locals extract_match_data returns, and what its looser patterns capture
MatchLocals ==
    {"agility_score", "assists", "athlete_score", "back_turns",
     "ball_possessions", "date_str", "distance_with_ball", "dribbling",
     "duration", "entry_speed", "exit_speed", "first_step_accel",
     "first_touch", "goals", "inside", "intense_accel", "intense_turns",
     "intense_turns_with_ball", "kicking_power", "laces", "left_kicking",
     "left_receives", "left_receives_pct", "left_releases",
     "left_releases_pct", "left_touches", "left_touches_pct", "left_turns",
     "multiple_touch_poss", "one_touch_poss", "opposing_score",
     "opposing_team_name", "other_footzone", "position", "power_score",
     "right_kicking", "right_receives", "right_receives_pct",
     "right_releases", "right_releases_pct", "right_touches",
     "right_touches_pct", "right_turns", "session_name", "speed_score",
     "sprint_distance", "sprints", "top_speed", "top_speed_with_ball",
     "total_distance", "total_duration_sec", "two_footed", "work_rate"}
        \cup {pair[2] : pair \in MatchPercentPatterns}

\* The locals extract_ball_work_data returns
BallWorkLocals ==
    {"accl_decl", "back_turns", "ball_touches", "date_str", "duration",
     "entry_speed", "exit_speed", "intense_turns", "intensity",
     "kicking_power", "left_kicking", "left_releases", "left_releases_pct",
     "left_touches", "left_touches_pct", "left_turns", "right_kicking",
     "right_releases", "right_releases_pct", "right_touches",
     "right_touches_pct", "right_turns", "session_name", "sprint_distance",
     "sprints", "top_speed", "total_distance", "training_type"}
        \cup {pair[2] : pair \in BallWorkPercentPatterns}

\* The locals extract_speed_agility_data returns
SpeedAgilityLocals ==
    {"accl_decl", "back_turns", "date_str", "duration", "entry_speed",
     "exit_speed", "intense_turns", "intensity", "left_turns",
     "right_turns", "session_name", "sprint_distance", "sprints",
     "top_speed", "total_distance", "training_type"}

NormalizerFunctions ==
    {"format_match_result", "format_ball_work_result", "format_speed_agility_result",
     "extract_match_data", "extract_ball_work_data", "extract_speed_agility_data"}

\* What a function reads: the keys of the JSON object, or the locals
Reads(fn) ==
    CASE fn = "format_match_result" -> MatchRawKeys
      [] fn = "format_ball_work_result" -> BallWorkRawKeys
      [] fn = "format_speed_agility_result" -> SpeedAgilityRawKeys
      [] fn = "extract_match_data" -> MatchLocals
      [] fn = "extract_ball_work_data" -> BallWorkLocals
      [] fn = "extract_speed_agility_data" -> SpeedAgilityLocals

Apply(fn, input) ==
    CASE fn = "format_match_result" -> format_match_result(input)
      [] fn = "format_ball_work_result" -> format_ball_work_result(input)
      [] fn = "format_speed_agility_result" -> format_speed_agility_result(input)
      [] fn = "extract_match_data" -> extract_match_data(input)
      [] fn = "extract_ball_work_data" -> extract_ball_work_data(input)
      [] fn = "extract_speed_agility_data" -> extract_speed_agility_data(input)

\* A value of the raw input: a number or string, or JSON's null
RawValues == {"7", Null}

\* The raw inputs of a function: the objects of at most MaxFields of the keys
\* it reads or of a key it does not read, and the object with every key
RECURSIVE KeySets(_, _)
KeySets(universe, n) ==
    IF n = 0 THEN {{}}
    ELSE LET smaller == KeySets(universe, n - 1)
         IN smaller \cup {K \cup {k} : K \in smaller, k \in universe}
RawInputs(fn) ==
    LET small == KeySets(Reads(fn) \cup {"unexpected_key"}, MaxFields)
    IN UNION {[K -> RawValues] : K \in small} \cup {[k \in Reads(fn) |-> "7"]}

InitNormalizer ==
    /\ API_KEY_MODE = "user"
    /\ SERVER_API_KEY = ""
    /\ form_api_key = ""
    /\ FLASK_ENV = "production"
    /\ session_type = None
    /\ files = <<>>
    /\ pos = <<>>
    /\ pc = "idle"
    /\ verdict = NoVerdict
    /\ extraction_prompt = "none"
    /\ content = <<>>
    /\ calls = <<>>
    /\ response_text = <<>>
    /\ normalizer = "none"
    /\ response = NoResponse
    /\ \E fn \in NormalizerFunctions : \E input \in RawInputs(fn) :
        applied = [fn |-> fn, input |-> input, output |-> NotApplied.output]
    /\ peer = NoPeer

ApplyNormalizer ==
    /\ applied.fn # "none"
    /\ applied.output = NotApplied.output
    /\ applied' = [applied EXCEPT !.output = Apply(applied.fn, applied.input)]
    /\ UNCHANGED <<peer, config, request, handler>>

SpecNormalizer == InitNormalizer /\ [][ApplyNormalizer]_vars

-----------------------------------------------------------------------------
Next ==
    \/ ValidateRequest
    \/ Classify
    \/ BuildRequest
    \/ CallPrimary
    \/ CallFallback
    \/ Normalize

Spec == Init /\ [][Next]_vars

-----------------------------------------------------------------------------
(* The percentage fields of the text-mode extractors on their own: one      *)
(* percentage of extract_ball_work_data or extract_match_data, with what    *)
(* its specific pattern and what its looser pattern capture in the text.    *)

PercentPatterns(fn) ==
    IF fn = "extract_ball_work_data" THEN BallWorkPercentPatterns
    ELSE IF fn = "extract_match_data" THEN MatchPercentPatterns
    ELSE {}

\* What a pattern captures: nothing (None), or a number
SpecificCaptures == {Null, "0", "35"}
FallbackCaptures == {Null, "0", "65"}

\* The locals found in a text in which the two patterns capture s and l
FoundBy(pair, s, l) ==
    [k \in {pair[i] : i \in {j \in {1, 2} : <<s, l>>[j] # Null}} |->
        IF k = pair[1] THEN s ELSE l]

InitPercent ==
    /\ API_KEY_MODE = "user"
    /\ SERVER_API_KEY = ""
    /\ form_api_key = ""
    /\ FLASK_ENV = "production"
    /\ session_type = None
    /\ files = <<>>
    /\ pos = <<>>
    /\ pc = "idle"
    /\ verdict = NoVerdict
    /\ extraction_prompt = "none"
    /\ content = <<>>
    /\ calls = <<>>
    /\ response_text = <<>>
    /\ normalizer = "none"
    /\ response = NoResponse
    /\ peer = NoPeer
    /\ \E fn \in {"extract_ball_work_data", "extract_match_data"} :
       \E pair \in PercentPatterns(fn) :
       \E s \in SpecificCaptures : \E l \in FallbackCaptures :
        applied = [fn |-> fn, input |-> FoundBy(pair, s, l),
                   output |-> NotApplied.output]

SpecPercent == InitPercent /\ [][ApplyNormalizer]_vars

-----------------------------------------------------------------------------
(* The classifier's reading of an answer on its own: validate_session_type  *)
(* from server.py:139 on, for a call that returned text.                    *)

\* Answers of the classifier: a label, or something else, with or without
\* the prefix in some spelling, and with or without something after it
AnswerPrefixes ==
    { <<>>,
      <<"u","n","c","e","r","t","a","i","n",":"," ">>,
      <<"U","n","c","e","r","t","a","i","n",":"," ">>,
      <<"U","N","C","E","R","T","A","I","N",":">>,
      <<" ","u","n","c","e","r","t","a","i","n",":">> }
AnswerBodies ==
    { <<"M","a","t","c","h">>,
      <<"B","a","l","l"," ","W","o","r","k">>,
      <<"S","p","e","e","d"," ","a","n","d"," ","A","g","i","l","i","t","y">>,
      <<"A","g","i","l","i","t","y",","," ","s","p","e","e","d">>,
      <<"S","p","e","e","d">>,
      <<"B","a","l","l">>,
      <<"B","a","l","l"," ","W","o","r","k"," ","o","r"," ","M","a","t","c","h">>,
      <<"M","a","t","c","h",","," ","u","n","c","e","r","t","a","i","n",":"," ","b","l","u","r","r","y">>,
      <<"Y","o","g","a">>,
      <<>> }
AnswerSuffixes ==
    { <<>>,
      <<"\n">>,
      <<".">> }
LabelAnswers ==
    {p \o b \o x : p \in AnswerPrefixes, b \in AnswerBodies, x \in AnswerSuffixes}

InitClassifier ==
    /\ API_KEY_MODE = "user"
    /\ SERVER_API_KEY = ""
    /\ form_api_key = ""
    /\ FLASK_ENV = "production"
    /\ session_type = None
    /\ files = <<>>
    /\ pos = <<>>
    /\ pc = "idle"
    /\ verdict = NoVerdict
    /\ extraction_prompt = "none"
    /\ content = <<>>
    /\ calls = <<>>
    /\ response_text = <<>>
    /\ normalizer = "none"
    /\ response = NoResponse
    /\ peer = NoPeer
    /\ \E answer \in LabelAnswers : \E claimed_type \in SessionTypes :
        applied = [fn |-> "validate_session_type",
                   input |-> [answer |-> answer, claimed_type |-> claimed_type],
                   output |-> NotApplied.output]

ApplyClassifier ==
    /\ applied.fn = "validate_session_type"
    /\ applied.output = NotApplied.output
    /\ applied' = [applied EXCEPT !.output =
                     Validate(Returns(applied.input.answer), applied.input.claimed_type)]
    /\ UNCHANGED <<peer, config, request, handler>>

SpecClassifier == InitClassifier /\ [][ApplyClassifier]_vars

-----------------------------------------------------------------------------
(* Two requests at once.  Flask hands every request to process_images with  *)
(* its own request object and its own locals; the module's globals          *)
(* (server.py:17-21) are assigned once, at import.  The first request is    *)
(* the one of the variables above; the second is the record peer.           *)

\* The locals of a request that process_images has just been called for
Received(st, formKey, fs) ==
    [session_type |-> st, form_api_key |-> formKey, files |-> fs,
     pos |-> [i \in 1..Len(fs) |-> 0], pc |-> "received", verdict |-> NoVerdict,
     extraction_prompt |-> "none", content |-> <<>>, calls |-> <<>>,
     response_text |-> <<>>, normalizer |-> "none", response |-> NoResponse]

\* server.py:429-430, on a record of locals
ReadInto(r, cfg, outcome) ==
    IF outcome.kind = "text"
    THEN [r EXCEPT !.response_text = outcome.text, !.pc = "normalize"]
    ELSE [r EXCEPT !.pc = "done",
                   !.response = HandleException(outcome.error, cfg[1], cfg[3])]

\* One step of process_images on a record of locals, with the globals cfg
\* and, where the step is a call of the vision service, what the service did
HandlerStep(cfg, r, outcome) ==
    CASE r.pc = "received" ->
            LET c == InputCheck(r.session_type, r.files, cfg[1], cfg[2], r.form_api_key)
            IN [r EXCEPT !.response = c,
                         !.pc = IF c = NoResponse THEN "classify" ELSE "done",
                         !.pos = [i \in 1..Len(r.files) |-> 0]]
      [] r.pc = "classify" ->
            LET v == Validate(outcome, r.session_type)
                called == [r EXCEPT !.calls = Append(@, ValidationCall(r.files, outcome)),
                                    !.verdict = v,
                                    !.pos = AfterSampling(@, r.files)]
            IN IF Rejected(r.session_type, v)
               THEN [called EXCEPT !.response = MismatchResponse(r.session_type, v),
                                   !.pc = "done"]
               ELSE [called EXCEPT !.pc = "build"]
      [] r.pc = "build" ->
            [r EXCEPT !.extraction_prompt = Template(r.session_type),
                      !.content = ExtractionContent(r.files, r.pos),
                      !.pos = [i \in 1..Len(r.files) |-> r.files[i].size],
                      !.pc = "extract_primary"]
      [] r.pc = "extract_primary" ->
            LET called == [r EXCEPT !.calls =
                             Append(@, ExtractionCall(SONNET, r.extraction_prompt,
                                                      r.content, outcome))]
            IN IF outcome.kind = "raise"
               THEN [called EXCEPT !.pc = "extract_fallback"]
               ELSE ReadInto(called, cfg, outcome)
      [] r.pc = "extract_fallback" ->
            ReadInto([r EXCEPT !.calls =
                        Append(@, ExtractionCall(HAIKU, r.extraction_prompt,
                                                 r.content, outcome))],
                     cfg, outcome)
      [] r.pc = "normalize" ->
            [r EXCEPT !.response = Respond(r.session_type, r.response_text),
                      !.normalizer = Dispatch(r.session_type, r.response_text),
                      !.pc = "done"]
      [] OTHER -> r

\* What the vision service does with a call of the second request
PeerClassifyOutcomes ==
    {Raises("AuthenticationError"),
     Returns(<<"M","a","t","c","h">>),
     Returns(<<"Y","o","g","a">>)}
PeerExtractOutcomes ==
    {Raises("RateLimitError"), Returns(WrappedExample), Returns(<<PROSE>>)}
PeerOutcomes(at) ==
    IF at = "classify" THEN PeerClassifyOutcomes
    ELSE IF at \in {"extract_primary", "extract_fallback"} THEN PeerExtractOutcomes
    ELSE {Unreadable}

PeerRunning == peer.pc \notin {"absent", "done"}

\* (a deliberately wrong variant: the verdict is kept in a global, which the
\* second request's classification overwrites)
PeerStep_SharedVerdict ==
    /\ PeerRunning
    /\ \E outcome \in PeerOutcomes(peer.pc) :
        /\ peer' = HandlerStep(config, peer, outcome)
        /\ verdict' = IF peer.pc = "classify" /\ pc = "build"
                      THEN peer'.verdict ELSE verdict
    /\ UNCHANGED <<applied, config, request, pos, pc, extraction_prompt, content,
                   calls, response_text, normalizer, response>>

\* A step of the second request
PeerStep ==
    /\ PeerRunning
    /\ \E outcome \in PeerOutcomes(peer.pc) :
        peer' = HandlerStep(config, peer, outcome)
    /\ UNCHANGED <<applied, config, request, handler>>

\* One image, and three images the last of which is at the size ceiling
ThreeImages == <<[size |-> 1], [size |-> 1], [size |-> MAX_FILE_SIZE]>>

InitConcurrent ==
    /\ \E c \in {<<"user", "", "development">>, <<"server", "sk-ant-server", "production">>} :
        /\ API_KEY_MODE = c[1]
        /\ SERVER_API_KEY = c[2]
        /\ FLASK_ENV = c[3]
    /\ form_api_key = IF API_KEY_MODE = "server" THEN "" ELSE "sk-ant-user"
    /\ session_type = MATCH
    /\ files = OneImage
    /\ pos = <<0>>
    /\ pc = "received"
    /\ verdict = NoVerdict
    /\ extraction_prompt = "none"
    /\ content = <<>>
    /\ calls = <<>>
    /\ response_text = <<>>
    /\ normalizer = "none"
    /\ response = NoResponse
    /\ applied = NotApplied
    /\ \E st \in {SPEED_AGILITY, MATCH} : \E fs \in {OneImage, ThreeImages} :
        peer = Received(st, form_api_key, fs)

NextConcurrent == Next \/ PeerStep

SpecConcurrent == InitConcurrent /\ [][NextConcurrent]_vars

-----------------------------------------------------------------------------
(* The regular expressions of the text-mode extractors, read on a text as   *)
(* a sequence of characters.  A match is [start, groups, end]; start is 0   *)
(* when the expression does not match.                                      *)

Digits == {"0", "1", "2", "3", "4", "5", "6", "7", "8", "9"}

NoMatch == [start |-> 0, groups |-> <<>>, end |-> 0]

\* The last position of the run of characters of S that starts at i
\* (i - 1 when there is none): a greedy \d+, \s+ or \s* from i
RECURSIVE RunEnd(_, _, _)
RunEnd(text, i, S) ==
    IF i <= Len(text) /\ text[i] \in S THEN RunEnd(text, i + 1, S) ELSE i - 1

\* The last position of the line that position i is on: a run of "."
RECURSIVE LineEnd(_, _)
LineEnd(text, i) ==
    IF i <= Len(text) /\ text[i] # "\n" THEN LineEnd(text, i + 1) ELSE i - 1

\* re.search: of the matches at the positions of a text, the leftmost
Search(matches) ==
    LET found == {m \in matches : m.start # 0}
    IN IF found = {} THEN NoMatch
       ELSE CHOOSE m \in found : \A n \in found : m.start <= n.start

\* int(s) of a run of digits, as the decimal digits of the number
RECURSIVE int(_)
int(s) == IF Len(s) > 1 /\ Head(s) = "0" THEN int(Tail(s)) ELSE s

\* r"(\d+)\s*:\s*(\d+)" at position i, server.py:698.  What follows each
\* \d+ and \s* cannot continue them, so each takes its whole run.
ScoreAt(text, i) ==
    LET e1 == RunEnd(text, i, Digits)
        c == RunEnd(text, e1 + 1, WhiteSpace) + 1
        k == RunEnd(text, c + 1, WhiteSpace) + 1
        e2 == RunEnd(text, k, Digits)
    IN IF e1 >= i /\ c <= Len(text) /\ text[c] = ":" /\ e2 >= k
       THEN [start |-> i,
             groups |-> <<SubSeq(text, i, e1), SubSeq(text, k, e2)>>,
             end |-> e2]
       ELSE NoMatch

\* r"\d+\s*:\s*\d+\s+(.+?)(?:\n|$)" at position i, server.py:708: the score
\* expression, then white space, of which \s+ gives back as much as it must
\* for the group to begin on a character other than a line break, then the
\* shortest text that ends at a line break or at the end of the text.
OpponentAt(text, i) ==
    LET pair == ScoreAt(text, i)
        w == RunEnd(text, pair.end + 1, WhiteSpace)
        begins == {b \in (pair.end + 2)..(w + 1) :
                      b <= Len(text) /\ text[b] # "\n"}
        b == CHOOSE x \in begins : \A y \in begins : y <= x
    IN IF pair.start # 0 /\ begins # {}
       THEN [start |-> i,
             groups |-> <<SubSeq(text, b, LineEnd(text, b))>>,
             end |-> LineEnd(text, b)]
       ELSE NoMatch

\* extract_match_data, server.py:697-709: the two scores and the name of
\* the opponent, each None when its expression does not match
ScorePair(text) ==
    LET text_lower == Lower(text)
        score_match ==
            Search({ScoreAt(text_lower, i) : i \in 1..Len(text_lower)})
        opponent_match ==
            Search({OpponentAt(text_lower, i) : i \in 1..Len(text_lower)})
    IN [athlete_score |->
            IF score_match.start # 0 THEN int(score_match.groups[1]) ELSE None,
        opposing_score |->
            IF score_match.start # 0 THEN int(score_match.groups[2]) ELSE None,
        opposing_team_name |->
            IF opponent_match.start # 0 THEN Strip(opponent_match.groups[1])
            ELSE None]

\* Texts with a score: every short text of these characters, and the
\* example of the comment at server.py:697 on a line of a longer text
ScoreChars == {"1", "4", ":", " ", "\n", "a"}
MaxScoreLen == 6
ScoreExample ==
    <<"C","i","t","y","p","l","a","y"," ","F","C"," ","1"," ",":"," ","4"," ",
      "F","C"," ","W","e","s","t","l","a","k","e">>
ScoreTexts ==
    SeqsUpTo(ScoreChars, MaxScoreLen)
        \cup {ScoreExample, ScoreExample \o <<"\n","G","o","a","l","s"," ","2">>}

InitScore ==
    /\ API_KEY_MODE = "user"
    /\ SERVER_API_KEY = ""
    /\ form_api_key = ""
    /\ FLASK_ENV = "production"
    /\ session_type = None
    /\ files = <<>>
    /\ pos = <<>>
    /\ pc = "idle"
    /\ verdict = NoVerdict
    /\ extraction_prompt = "none"
    /\ content = <<>>
    /\ calls = <<>>
    /\ response_text = <<>>
    /\ normalizer = "none"
    /\ response = NoResponse
    /\ peer = NoPeer
    /\ \E text \in ScoreTexts :
        applied = [fn |-> "extract_match_data", input |-> text,
                   output |-> NotApplied.output]

ApplyScore ==
    /\ applied.fn = "extract_match_data"
    /\ applied.output = NotApplied.output
    /\ applied' = [applied EXCEPT !.output = ScorePair(applied.input)]
    /\ UNCHANGED <<peer, config, request, handler>>

SpecScore == InitScore /\ [][ApplyScore]_vars

-----------------------------------------------------------------------------
(* The date of a session, server.py:495-507, 605-617 and 677-689: the same  *)
(* statements in the three text-mode extractors.                            *)

Months ==
    << <<"j","a","n","u","a","r","y">>, <<"f","e","b","r","u","a","r","y">>,
       <<"m","a","r","c","h">>, <<"a","p","r","i","l">>, <<"m","a","y">>,
       <<"j","u","n","e">>, <<"j","u","l","y">>, <<"a","u","g","u","s","t">>,
       <<"s","e","p","t","e","m","b","e","r">>, <<"o","c","t","o","b","e","r">>,
       <<"n","o","v","e","m","b","e","r">>, <<"d","e","c","e","m","b","e","r">> >>

DigitChars == <<"0", "1", "2", "3", "4", "5", "6", "7", "8", "9">>

\* The number that a run of digits writes
RECURSIVE Value(_)
Value(s) ==
    IF Len(s) = 0 THEN 0
    ELSE 10 * Value(SubSeq(s, 1, Len(s) - 1))
            + (CHOOSE n \in 0..9 : DigitChars[n + 1] = s[Len(s)])

\* The month whose name stands at position i (0 when none does)
MonthAt(text, i) ==
    LET here == {m \in 1..12 : StartsWith(SubSeq(text, i, Len(text)), Months[m])}
    IN IF here = {} THEN 0 ELSE CHOOSE m \in here : TRUE

\* r"((?:january|...|december)\s+\d{1,2},\s*\d{4})" at position i
DateAt(text, i) ==
    LET m == MonthAt(text, i)
        a == i + Len(Months[m])
        w1 == RunEnd(text, a, WhiteSpace)
        d == RunEnd(text, w1 + 1, Digits)
        w2 == RunEnd(text, d + 2, WhiteSpace)
    IN IF /\ m # 0
          /\ w1 >= a
          /\ d - w1 \in {1, 2}
          /\ d + 1 <= Len(text) /\ text[d + 1] = ","
          /\ w2 + 4 <= Len(text)
          /\ \A n \in (w2 + 1)..(w2 + 4) : text[n] \in Digits
       THEN [start |-> i, groups |-> <<SubSeq(text, i, w2 + 4)>>, end |-> w2 + 4]
       ELSE NoMatch

\* The days of a month of the calendar
DaysIn(month, year) ==
    IF month = 2
    THEN IF year % 4 = 0 /\ (year % 100 # 0 \/ year % 400 = 0) THEN 29 ELSE 28
    ELSE IF month \in {4, 6, 9, 11} THEN 30 ELSE 31

\* (a deliberately wrong variant: every day up to 31 passes in every month
\* and every year)
strptime_AnyDay(s) ==
    LET m == MonthAt(s, 1)
        a == 1 + Len(Months[m])
        w1 == RunEnd(s, a, WhiteSpace)
        d == RunEnd(s, w1 + 1, Digits)
        w2 == RunEnd(s, d + 2, WhiteSpace)
        day == Value(SubSeq(s, w1 + 1, d))
        year == Value(SubSeq(s, w2 + 1, w2 + 4))
    IN IF /\ m # 0
          /\ w1 >= a
          /\ d - w1 \in {1, 2}
          /\ day \in 1..31
          /\ d + 1 <= Len(s) /\ s[d + 1] = ","
          /\ w2 >= d + 2
          /\ w2 + 4 = Len(s)
          /\ \A n \in (w2 + 1)..(w2 + 4) : s[n] \in Digits
       THEN [raised |-> "", year |-> year, month |-> m, day |-> day]
       ELSE [raised |-> "ValueError", year |-> 0, month |-> 0, day |-> 0]

\* datetime.strptime(s, "%B %d, %Y"): the name of a month, white space, a
\* day of one or two digits from 1 to 31, a comma, white space, a year of
\* four digits and nothing more; then a date of the calendar, whose years
\* begin at 1.  raised is "ValueError" when s is not such a date.
strptime(s) ==
    LET m == MonthAt(s, 1)
        a == 1 + Len(Months[m])
        w1 == RunEnd(s, a, WhiteSpace)
        d == RunEnd(s, w1 + 1, Digits)
        w2 == RunEnd(s, d + 2, WhiteSpace)
        day == Value(SubSeq(s, w1 + 1, d))
        year == Value(SubSeq(s, w2 + 1, w2 + 4))
    IN IF /\ m # 0
          /\ w1 >= a
          /\ d - w1 \in {1, 2}
          /\ day \in 1..31
          /\ d + 1 <= Len(s) /\ s[d + 1] = ","
          /\ w2 >= d + 2
          /\ w2 + 4 = Len(s)
          /\ \A n \in (w2 + 1)..(w2 + 4) : s[n] \in Digits
          /\ year >= 1
          /\ day <= DaysIn(m, year)
       THEN [raised |-> "", year |-> year, month |-> m, day |-> day]
       ELSE [raised |-> "ValueError", year |-> 0, month |-> 0, day |-> 0]

\* The decimal digits of a number, at least width of them
RECURSIVE Decimal(_, _)
Decimal(n, width) ==
    IF n < 10 /\ width <= 1 THEN <<DigitChars[n + 1]>>
    ELSE Append(Decimal(n \div 10, width - 1), DigitChars[(n % 10) + 1])

\* date_obj.strftime("%Y-%m-%d"): month and day of two digits; the year as
\* the C library writes it, which is its four digits from the year 1000 on
strftime(date_obj) ==
    Decimal(date_obj.year, 1) \o <<"-">> \o Decimal(date_obj.month, 2)
        \o <<"-">> \o Decimal(date_obj.day, 2)

\* date_str of a text, server.py:677-689
DateOf(text) ==
    LET date_match == Search({DateAt(Lower(text), i) : i \in 1..Len(text)})
        date_obj == strptime(date_match.groups[1])
    IN IF date_match.start = 0 THEN None
       ELSE IF date_obj.raised = "ValueError" THEN None
       ELSE strftime(date_obj)

\* Texts with a date: what stands before it, the month, what separates it
\* from the day, the day, the comma, what separates it from the year, the
\* year (of 1000 and over, or 0000), and what stands after it
DateLeads == {<<>>, <<"o","n"," ">>}
DateMonths ==
    {<<"M","a","r","c","h">>, <<"f","e","b","r","u","a","r","y">>,
     <<"A","P","R","I","L">>, <<"m","a","y">>, <<"M","a","r","c">>}
DateGaps == {<<" ">>, <<" "," ">>, <<"\n">>, <<>>}
DateDays == {<<"5">>, <<"0","5">>, <<"2","9">>, <<"3","0">>, <<"3","1">>,
             <<"0">>, <<"3","2">>, <<"1","2","3">>}
DateCommas == {<<",">>, <<>>}
DateYears == {<<"2","0","2","4">>, <<"2","0","2","3">>, <<"1","9","0","0">>,
              <<"2","0","0","0">>, <<"0","0","0","0">>, <<"2","4">>}
DateTails == {<<>>, <<" ","m","o","r","n","i","n","g">>}
DateParts ==
    [lead : DateLeads, month : DateMonths, gap : DateGaps, day : DateDays,
     comma : DateCommas, space : DateGaps \ {<<"\n">>}, year : DateYears,
     tail : DateTails]
TextOf(p) ==
    p.lead \o p.month \o p.gap \o p.day \o p.comma \o p.space \o p.year \o p.tail

TextModeExtractors ==
    {"extract_ball_work_data", "extract_speed_agility_data", "extract_match_data"}

InitDate ==
    /\ API_KEY_MODE = "user"
    /\ SERVER_API_KEY = ""
    /\ form_api_key = ""
    /\ FLASK_ENV = "production"
    /\ session_type = None
    /\ files = <<>>
    /\ pos = <<>>
    /\ pc = "idle"
    /\ verdict = NoVerdict
    /\ extraction_prompt = "none"
    /\ content = <<>>
    /\ calls = <<>>
    /\ response_text = <<>>
    /\ normalizer = "none"
    /\ response = NoResponse
    /\ peer = NoPeer
    /\ \E fn \in TextModeExtractors : \E p \in DateParts :
        applied = [fn |-> fn, input |-> [parts |-> p, text |-> TextOf(p)],
                   output |-> NotApplied.output]

ApplyDate ==
    /\ applied.fn \in TextModeExtractors
    /\ applied.output = NotApplied.output
    /\ applied' = [applied EXCEPT !.output = [date |-> DateOf(applied.input.text)]]
    /\ UNCHANGED <<peer, config, request, handler>>

SpecDate == InitDate /\ [][ApplyDate]_vars

-----------------------------------------------------------------------------
(* extract_number, server.py:882-890, with two of the patterns it is called *)
(* with: words with \s* between them, then [:\s]*, then one group.          *)

\* r"sprints[:\s]*(\d+)", server.py:544
SPRINTS ==
    [words |-> << <<"s","p","r","i","n","t","s">> >>, class |-> Digits]
\* r"top\s*speed[:\s]*([\d.]+)", server.py:543
TOP_SPEED ==
    [words |-> << <<"t","o","p">>, <<"s","p","e","e","d">> >>,
     class |-> Digits \cup {"."}]

\* The last position of the words from position i on (-1 when they do not
\* stand there)
RECURSIVE WordsEnd(_, _, _)
WordsEnd(words, text, i) ==
    IF ~ StartsWith(SubSeq(text, i, Len(text)), Head(words)) THEN -1
    ELSE IF Len(words) = 1 THEN i + Len(Head(words)) - 1
    ELSE WordsEnd(Tail(words), text,
                  RunEnd(text, i + Len(Head(words)), WhiteSpace) + 1)

\* The pattern at position i
PatternAt(pattern, text, i) ==
    LET e == WordsEnd(pattern.words, text, i)
        s == RunEnd(text, e + 1, WhiteSpace \cup {":"})
        g == RunEnd(text, s + 1, pattern.class)
    IN IF e >= 0 /\ g > s
       THEN [start |-> i, groups |-> <<SubSeq(text, s + 1, g)>>, end |-> g]
       ELSE NoMatch

\* s without the zeros at its end
RECURSIVE TrimZeros(_)
TrimZeros(s) ==
    IF Len(s) > 0 /\ s[Len(s)] = "0" THEN TrimZeros(SubSeq(s, 1, Len(s) - 1)) ELSE s

\* (a deliberately wrong variant: every run of digits and points is a
\* number, read up to its second point)
float_Lenient(s) ==
    LET points == {n \in 1..Len(s) : s[n] = "."}
        point == CHOOSE n \in points : \A o \in points : n <= o
        next == IF points = {point} THEN Len(s) + 1
                ELSE CHOOSE n \in points \ {point} :
                        \A o \in points \ {point} : n <= o
    IN [raised |-> "", type |-> "float",
        digits |-> IF point = 1 THEN <<"0">> ELSE int(SubSeq(s, 1, point - 1)),
        fraction |-> TrimZeros(SubSeq(s, point + 1, next - 1))]

\* float(s) of a run of digits and points: a number when there is one
\* point and a digit beside it, as its digits before and after the point;
\* raised is "ValueError" otherwise
float(s) ==
    LET points == {n \in 1..Len(s) : s[n] = "."}
        point == CHOOSE n \in points : TRUE
    IN IF /\ Cardinality(points) = 1
          /\ Len(s) > 1
          /\ \A n \in 1..Len(s) : s[n] \in Digits \cup {"."}
       THEN [raised |-> "", type |-> "float",
             digits |-> IF point = 1 THEN <<"0">> ELSE int(SubSeq(s, 1, point - 1)),
             fraction |-> TrimZeros(SubSeq(s, point + 1, Len(s)))]
       ELSE [raised |-> "ValueError", type |-> "NoneType", digits |-> <<>>,
             fraction |-> <<>>]

\* return None
Absent == [type |-> "NoneType", digits |-> <<>>, fraction |-> <<>>]

extract_number(text, pattern) ==
    LET match ==
            Search({PatternAt(pattern, Lower(text), i) : i \in 1..Len(text)})
        group == match.groups[1]
        number == float(group)
    IN IF match.start = 0 THEN Absent
       ELSE IF Contains(group, <<".">>)
            THEN IF number.raised = "ValueError" THEN Absent
                 ELSE [type |-> "float", digits |-> number.digits,
                       fraction |-> number.fraction]
            ELSE [type |-> "int", digits |-> int(group), fraction |-> <<>>]

\* Texts with a number: a label, what separates it from the number, the
\* number as a run of digits and points, and a unit
NumberPatterns == {SPRINTS, TOP_SPEED}
NumberLabels ==
    {<<"S","p","r","i","n","t","s">>, <<"T","o","p"," ","s","p","e","e","d">>,
     <<"l","a","p","s">>}
NumberGaps == {<<":"," ">>, <<>>}
NumberChars == {"0", "1", "2", "3", "."}
MaxNumberLen == 5
NumberParts ==
    [label : NumberLabels, gap : NumberGaps,
     number : SeqsUpTo(NumberChars, MaxNumberLen)]
NumberText(p) == p.label \o p.gap \o p.number \o <<" ","m","p","h">>

InitNumber ==
    /\ API_KEY_MODE = "user"
    /\ SERVER_API_KEY = ""
    /\ form_api_key = ""
    /\ FLASK_ENV = "production"
    /\ session_type = None
    /\ files = <<>>
    /\ pos = <<>>
    /\ pc = "idle"
    /\ verdict = NoVerdict
    /\ extraction_prompt = "none"
    /\ content = <<>>
    /\ calls = <<>>
    /\ response_text = <<>>
    /\ normalizer = "none"
    /\ response = NoResponse
    /\ peer = NoPeer
    /\ \E pattern \in NumberPatterns : \E p \in NumberParts :
        applied = [fn |-> "extract_number",
                   input |-> [parts |-> p, text |-> NumberText(p),
                              pattern |-> pattern],
                   output |-> NotApplied.output]

ApplyNumber ==
    /\ applied.fn = "extract_number"
    /\ applied.output = NotApplied.output
    /\ applied' = [applied EXCEPT !.output =
                     extract_number(applied.input.text, applied.input.pattern)]
    /\ UNCHANGED <<peer, config, request, handler>>

SpecNumber == InitNumber /\ [][ApplyNumber]_vars

-----------------------------------------------------------------------------
(* What the claims speak of *)

\* The error message of a response ("" when it carries none)
ErrorText(r) == IF "error" \in DOMAIN r.body THEN r.body.error.text ELSE ""

\* The extraction calls issued so far, in order
ExtractionCalls == SelectSeq(calls, LAMBDA c : c.purpose = "extraction")

\* The handler has got an extraction response and has parsed (or failed to
\* parse) it
Normalized ==
    /\ pc = "done"
    /\ Len(calls) >= 2
    /\ calls[Len(calls)].outcome = "text"

\* The text holds a "{" and a later "}", and what lies from the first "{" to
\* the last "}" is one JSON object
IsFirstBrace(text, i) == text[i] = LBRACE /\ \A k \in 1..(i - 1) : text[k] # LBRACE
IsLastBrace(text, j) == text[j] = RBRACE /\ \A k \in (j + 1)..Len(text) : text[k] # RBRACE
HoldsObject(text) ==
    \E i, j \in 1..Len(text) :
        /\ IsFirstBrace(text, i)
        /\ IsLastBrace(text, j)
        /\ i < j
        /\ Parses(SubSeq(text, i, j))
ObjectOf(text) ==
    LET i == CHOOSE i \in 1..Len(text) : IsFirstBrace(text, i)
        j == CHOOSE j \in 1..Len(text) : IsLastBrace(text, j)
    IN JsonLoads(SubSeq(text, i, j))

\* The sections of a record, each with its field names
Shape(rec) ==
    [s \in DOMAIN rec |->
        IF s = "first_touch"
        THEN [f \in DOMAIN rec[s] |-> DOMAIN rec[s][f]]
        ELSE DOMAIN rec[s]]

\* The schema of a session type
SchemaOf(st) ==
    IF st = MATCH THEN MatchSchema
    ELSE IF st = BALL_WORK THEN BallWorkSchema
    ELSE SpeedAgilitySchema

MISMATCH_TEXT ==
    "Session type mismatch: Images appear to be '{}' but you selected '{}'. Please verify your selection."
COUNT_TEXTS ==
    {"No images uploaded",
     "Too many files. Maximum {} allowed",
     "{} sessions should have at most {} images. You uploaded {}. Please check your session type selection."}
INPUT_VALIDATION_TEXTS ==
    COUNT_TEXTS \cup {"File {} exceeds {}MB limit", "API key is required"}
MALFORMED_TEXTS ==
    {"Failed to extract JSON from response", "Invalid JSON response: {}"}

-----------------------------------------------------------------------------
(* C1 *)

C1_Proceeds == pc = "build" \/ extraction_prompt # "none"
C1_Rejects ==
    /\ pc = "done"
    /\ response.status = 400
    /\ ErrorText(response) = MISMATCH_TEXT
    /\ ExtractionCalls = <<>>

\* C1: once the classifier has answered, the request proceeds when is_valid
\* is true, when confidence is uncertain, and when the confident mismatch is
\* (match, ball_work) or (ball_work, match); every other confident mismatch
\* ends the request with the 400 session-type-mismatch error.
C1_DecisionTable ==
    Len(calls) >= 1 =>
        LET crossPair == <<session_type, verdict.detected_type>>
                            \in {<<MATCH, BALL_WORK>>, <<BALL_WORK, MATCH>>}
        IN IF \/ verdict.is_valid
              \/ verdict.confidence = "uncertain"
              \/ verdict.confidence = "confident" /\ crossPair
           THEN C1_Proceeds /\ ~C1_Rejects
           ELSE C1_Rejects /\ verdict.confidence = "confident"

\* A match request in which the classifier confidently saw ball work goes on.
C1_Witness ==
    /\ pc = "build"
    /\ session_type = MATCH
    /\ verdict = [is_valid |-> FALSE, detected_type |-> BALL_WORK,
                  confidence |-> "confident"]

-----------------------------------------------------------------------------
(* C2 *)

\* C2: when the classification call raised or its answer could not be read,
\* the verdict is (true, claimed type, validation_error), the request goes
\* on, and no response is returned before an extraction call was issued.
C2_FailOpen ==
    (Len(calls) >= 1 /\ calls[1].outcome # "text") =>
        /\ verdict = [is_valid |-> TRUE, detected_type |-> session_type,
                      confidence |-> "validation_error"]
        /\ C1_Proceeds
        /\ pc = "done" => Len(ExtractionCalls) >= 1
        /\ pc # "done" => response = NoResponse

\* The classification call was refused for its credential, and the request
\* still ended in a success.
C2_Witness ==
    /\ pc = "done"
    /\ Len(calls) >= 1
    /\ calls[1].error = "AuthenticationError"
    /\ response.status = 200

-----------------------------------------------------------------------------
(* C3 *)

C3_CountError ==
    /\ pc = "done"
    /\ response.status = 400
    /\ ErrorText(response) \in COUNT_TEXTS
    /\ calls = <<>>

\* C3: a request of n images ends with a 400 count error when n = 0, n > 20,
\* n > 2 under speed_agility or n > 4 under ball_work; a match request of 1
\* to 20 images never gets a count error.
C3_FileCountCeilings ==
    pc # "received" =>
        LET n == Len(files)
        IN /\ ( \/ n = 0
                \/ n > 20
                \/ session_type = SPEED_AGILITY /\ n > 2
                \/ session_type = BALL_WORK /\ n > 4 ) => C3_CountError
           /\ (session_type = MATCH /\ n >= 1 /\ n <= 20)
                => ErrorText(response) \notin COUNT_TEXTS

\* Three images under speed_agility are turned down.
C3_Witness ==
    /\ session_type = SPEED_AGILITY
    /\ Len(files) = 3
    /\ C3_CountError

-----------------------------------------------------------------------------
(* C4 *)

\* C4: a request that ends in an input-validation error (no images, too many
\* images, too many for the type, a file over the ceiling, no credential from
\* the caller) has issued no outbound call.
C4_ValidationBeforeCalls ==
    (pc = "done" /\ ErrorText(response) \in INPUT_VALIDATION_TEXTS) =>
        /\ calls = <<>>
        /\ response.status = 400

\* A request whose last file is one byte over the ceiling.
C4_Witness ==
    /\ pc = "done"
    /\ ErrorText(response) = "File {} exceeds {}MB limit"
    /\ files[Len(files)].size = MAX_FILE_SIZE + 1

-----------------------------------------------------------------------------
(* C5 *)

\* C5: at most two extraction calls; the first goes to the primary model;
\* a second is issued exactly when the first raised, goes to the secondary
\* model and carries the same instruction and images; and a request whose
\* fallback call returned a response is answered as the normal path answers
\* that response: with the success envelope of exactly success, data and
\* ocr_text when the response holds a JSON object for a known session type.
C5_ModelTierFallback ==
    LET E == ExtractionCalls
    IN /\ Len(E) <= 2
       /\ Len(E) >= 1 => E[1].model = SONNET
       /\ Len(E) = 2 =>
            /\ E[1].outcome = "raise"
            /\ E[2].model = HAIKU
            /\ E[2].prompt = E[1].prompt
            /\ E[2].images = E[1].images
       /\ (Len(E) >= 1 /\ E[1].outcome = "raise" /\ pc \in {"normalize", "done"})
            => Len(E) = 2
       /\ (Len(E) >= 1 /\ E[1].outcome # "raise") => Len(E) = 1
       /\ (pc = "done" /\ Len(E) = 2 /\ E[2].outcome = "text") =>
            /\ response = Respond(session_type, response_text)
            /\ (HoldsObject(response_text) /\ session_type \in SessionTypes) =>
                response =
                    [status |-> 200,
                     body |-> [success |-> TRUE,
                               data |-> Format(session_type, ObjectOf(response_text)),
                               ocr_text |-> response_text]]

\* The primary call was rate limited and the fallback call's response made
\* the request succeed.
C5_Witness ==
    /\ pc = "done"
    /\ Len(ExtractionCalls) = 2
    /\ ExtractionCalls[1].error = "RateLimitError"
    /\ ExtractionCalls[2].outcome = "text"
    /\ response.status = 200

-----------------------------------------------------------------------------
(* C8 *)

\* C8: a request that has not ended has no response; one that has ended has
\* either the success envelope (200, success = true, the record of the
\* claimed type in data, the model's response in ocr_text) or an error
\* envelope of only an error message with status 400, 401, 429 or 500.
C8_ResponseShapes ==
    /\ pc # "done" => response = NoResponse
    /\ pc = "done" =>
        \/ /\ DOMAIN response.body = {"success", "data", "ocr_text"}
           /\ response.status = 200
           /\ response.body.success = TRUE
           /\ response.body.ocr_text = response_text
           /\ Shape(response.body.data) = SchemaOf(session_type)
        \/ /\ DOMAIN response.body = {"error"}
           /\ response.status \in {400, 401, 429, 500}

\* An error after the response was parsed: the session type is not a known
\* one.
C8_Witness ==
    /\ Normalized
    /\ HoldsObject(response_text)
    /\ response.status = 400

-----------------------------------------------------------------------------
(* C9 *)

\* The credential came with the request (server.py:227-231), not from the
\* deployment (server.py:222-226)
CallerSupplied == API_KEY_MODE # "server"
\* What a deployment with its own credential says of a rejected credential
ServerUnauthorizedText == ErrorText(HandleException("AuthenticationError", "server", FLASK_ENV))
CallerUnauthorizedText == ErrorText(HandleException("AuthenticationError", "user", FLASK_ENV))

\* C9: a request that an upstream failure ended has status 401 for a rejected
\* credential, 429 for a rate limit and 500 for anything else; the 401
\* message of a request with a caller-supplied credential is not the message
\* of a server-configured one (nor the other way round), and holds no
\* credential.
C9_UpstreamCategories ==
    (pc = "done" /\ Len(calls) >= 2 /\ calls[Len(calls)].outcome # "text") =>
        LET e == calls[Len(calls)].error
        IN /\ e = "AuthenticationError" =>
                /\ response.status = 401
                /\ IF CallerSupplied
                   THEN ErrorText(response) # ServerUnauthorizedText
                   ELSE ErrorText(response) # CallerUnauthorizedText
                /\ response.body.error.args = <<>>
                /\ ErrorText(response) \notin {SERVER_API_KEY, form_api_key}
           /\ e = "RateLimitError" => response.status = 429
           /\ e \notin {"AuthenticationError", "RateLimitError"} => response.status = 500

\* A deployment whose API_KEY_MODE is neither "user" nor "server" takes the
\* caller's credential, and tells the caller that the server's key is invalid.
C9_Witness ==
    /\ pc = "done"
    /\ Len(calls) >= 2
    /\ calls[Len(calls)].error = "AuthenticationError"
    /\ API_KEY_MODE \notin {"user", "server"}
    /\ form_api_key # ""
    /\ response.status = 401
    /\ ErrorText(response) = ServerUnauthorizedText

-----------------------------------------------------------------------------
(* C6 *)

\* The fields of a record, each <<section, field, subfield, value>>
Leaves(rec) ==
    UNION {IF s = "first_touch"
           THEN UNION {{<<s, f, g, rec[s][f][g]>> : g \in DOMAIN rec[s][f]} :
                        f \in DOMAIN rec[s]}
           ELSE {<<s, f, "", rec[s][f]>> : f \in DOMAIN rec[s]} :
           s \in DOMAIN rec}

\* The session type a normalizer function is for
TypeOf(fn) ==
    IF fn \in {"format_match_result", "extract_match_data"} THEN MATCH
    ELSE IF fn \in {"format_ball_work_result", "extract_ball_work_data"} THEN BALL_WORK
    ELSE SPEED_AGILITY

\* The raw input populated none of the fields
NothingFound == DOMAIN applied.input \cap Reads(applied.fn) = {}
NormalizerApplied == applied.fn # "none" /\ applied.output # NotApplied.output

\* The one field no function takes from the raw input: a match record's
\* training type is always "Match"
MatchConstant == {<<"session", "training_type", "", "Match">>}
\* What the text-mode functions put where the text held no value
TextModeDefaults(fn) ==
    CASE fn = "extract_ball_work_data" ->
            {<<"session", "training_type", "", "Technical">>,
             <<"session", "intensity", "", "Moderate">>}
      [] fn = "extract_speed_agility_data" ->
            {<<"session", "training_type", "", "Physical">>,
             <<"session", "intensity", "", "Moderate">>}
      [] OTHER -> {}
Constant(fn) == IF TypeOf(fn) = MATCH THEN MatchConstant ELSE {}
Populated(rec) == {l \in Leaves(rec) : l[4] # Null}

\* C6 as stated: the record of every one of the six functions has exactly
\* the sections and fields of its type's schema for every input, and a field
\* the raw input does not hold is null.
C6_SchemaTotality_AsStated ==
    NormalizerApplied =>
        /\ Shape(applied.output) = SchemaOf(TypeOf(applied.fn))
        /\ NothingFound => Populated(applied.output) = Constant(applied.fn)

\* C6: the record of every one of the six functions has exactly the sections
\* and fields of its type's schema for every input; a field the raw input
\* does not hold is null, but for the training type and the intensity of the
\* text-mode ball-work and speed-agility records, which default to
\* "Technical" or "Physical" and to "Moderate".
C6_SchemaTotality ==
    NormalizerApplied =>
        /\ Shape(applied.output) = SchemaOf(TypeOf(applied.fn))
        /\ NothingFound =>
            Populated(applied.output) =
                Constant(applied.fn) \cup TextModeDefaults(applied.fn)

\* The ball-work record of an empty JSON object.
C6_Witness ==
    /\ NormalizerApplied
    /\ applied.fn = "format_ball_work_result"
    /\ DOMAIN applied.input = {}
    /\ applied.output.session.training_type = Null

-----------------------------------------------------------------------------
(* C7 *)

RecordReturned == "data" \in DOMAIN response.body
MalformedResponse ==
    /\ response.status = 500
    /\ ErrorText(response) \in MALFORMED_TEXTS
    /\ ~RecordReturned

\* C7 as stated: the response is normalized into a record if and only if it
\* holds a "{" and a later "}" and the text from the first "{" to the last
\* "}" parses; in every other case the request ends with MalformedResponse.
C7_StructuredJson_AsStated ==
    Normalized =>
        /\ RecordReturned <=> HoldsObject(response_text)
        /\ ~HoldsObject(response_text) => MalformedResponse

\* C7: for a request of one of the three session types the response is
\* normalized into a record if and only if it holds a "{" and a later "}"
\* and the text from the first "{" to the last "}" parses, the record being
\* that object's, whatever stands before and after; without such an object
\* the request ends with MalformedResponse whatever its session type; and an
\* object under any other session type gives the 400 invalid-session-type
\* error and no record.
C7_StructuredJson ==
    Normalized =>
        /\ session_type \in SessionTypes =>
            (RecordReturned <=> HoldsObject(response_text))
        /\ RecordReturned =>
            /\ response.status = 200
            /\ response.body.data = Format(session_type, ObjectOf(response_text))
        /\ ~HoldsObject(response_text) => MalformedResponse
        /\ (HoldsObject(response_text) /\ session_type \notin SessionTypes) =>
            /\ response.status = 400
            /\ ErrorText(response) = "Invalid session type"
            /\ ~RecordReturned

\* An object with prose before it and after it.
C7_Witness ==
    /\ Normalized
    /\ session_type = MATCH
    /\ response_text = <<PROSE, LBRACE, Member("goals", "2"), RBRACE, PROSE>>
    /\ RecordReturned
    /\ response.body.data.overview.goals = "2"

-----------------------------------------------------------------------------
(* C10 *)

TextModeFunctions ==
    {"extract_match_data", "extract_ball_work_data", "extract_speed_agility_data"}
JsonModeFunctions ==
    {"format_match_result", "format_ball_work_result", "format_speed_agility_result"}
TextModeFunction(st) ==
    IF st = BALL_WORK THEN "extract_ball_work_data"
    ELSE IF st = SPEED_AGILITY THEN "extract_speed_agility_data"
    ELSE "extract_match_data"

\* C10 as stated: a response that is a JSON object goes to the JSON-mode
\* function, and a response that is free text goes to the text-mode function
\* of the session type, which produces the record.
C10_InputModes_AsStated ==
    Normalized =>
        /\ HoldsObject(response_text) => normalizer \in JsonModeFunctions \cup {"none"}
        /\ ~HoldsObject(response_text) =>
            /\ normalizer = TextModeFunction(session_type)
            /\ RecordReturned

\* C10: the request handler has one input mode. A response that holds a JSON
\* object goes to the JSON-mode function of the session type (to none when
\* the type is not one of the three); a response that is free text goes to
\* no function, least of all a text-mode one: the request ends with
\* MalformedResponse and no record.
C10_InputModes ==
    /\ normalizer \notin TextModeFunctions
    /\ Normalized =>
        /\ HoldsObject(response_text) => normalizer = Formatter(session_type)
        /\ (HoldsObject(response_text) /\ session_type \in SessionTypes) =>
            /\ normalizer \in JsonModeFunctions
            /\ RecordReturned
        /\ ~HoldsObject(response_text) =>
            /\ normalizer = "none"
            /\ MalformedResponse

\* The extraction call returned prose alone.
C10_Witness ==
    /\ Normalized
    /\ response_text = <<PROSE>>
    /\ normalizer = "none"
    /\ response.status = 500

-----------------------------------------------------------------------------
(* C11 *)

\* The first request's locals, as a record like the second's
Locals ==
    [session_type |-> session_type, form_api_key |-> form_api_key, files |-> files,
     pos |-> pos, pc |-> pc, verdict |-> verdict,
     extraction_prompt |-> extraction_prompt, content |-> content, calls |-> calls,
     response_text |-> response_text, normalizer |-> normalizer, response |-> response]

\* What the vision service can do with the call that a request at this
\* place issues
OutcomesAt(at) == IF at = "classify" THEN ClassifyOutcomes ELSE ExtractOutcomes

\* C11: with two requests in progress and their steps interleaved in any
\* order, no step changes the globals, a step of one request leaves the
\* other's locals as they are, and what a step does to its own request is
\* what process_images does alone with that request's locals, the globals
\* and the vision service's answer to that request; so each request's
\* response is the one it would have got alone.
C11_Independent ==
    [][ /\ UNCHANGED config
        /\ Locals' # Locals =>
            /\ peer' = peer
            /\ \E outcome \in OutcomesAt(pc) :
                Locals' = HandlerStep(config, Locals, outcome)
        /\ peer' # peer =>
            /\ Locals' = Locals
            /\ \E outcome \in OutcomesAt(peer.pc) :
                peer' = HandlerStep(config, peer, outcome)
      ]_vars

\* Both requests are between their classification and their response, with
\* different verdicts.
C11_Witness ==
    /\ pc = "extract_primary"
    /\ peer.pc = "extract_fallback"
    /\ verdict.confidence = "uncertain"
    /\ peer.verdict.confidence = "validation_error"

-----------------------------------------------------------------------------
(* C12 *)

\* The instruction template of each session type
TemplateOf(st) ==
    CASE st = MATCH -> "match template"
      [] st = BALL_WORK -> "ball_work template"
      [] st = SPEED_AGILITY -> "speed_agility template"

\* The request went on after its classification
PastClassification == Len(calls) >= 1 /\ ~C1_Rejects /\ pc # "classify"

\* C12: in a request of one of the three session types that goes on after
\* its classification, whatever the verdict, the instruction built and sent
\* with every extraction call is the template of the claimed type, and the
\* record returned has the sections and fields of the claimed type.
C12_ClaimedTypeKept ==
    (PastClassification /\ session_type \in SessionTypes) =>
        /\ extraction_prompt \in {"none", TemplateOf(session_type)}
        /\ pc # "build" => extraction_prompt = TemplateOf(session_type)
        /\ \A k \in 1..Len(ExtractionCalls) :
            ExtractionCalls[k].prompt = TemplateOf(session_type)
        /\ RecordReturned =>
            /\ Shape(response.body.data) = SchemaOf(session_type)
            /\ normalizer = Formatter(session_type)

\* A match request in which the classifier confidently saw ball work gets a
\* match record.
C12_Witness ==
    /\ pc = "done"
    /\ session_type = MATCH
    /\ verdict.detected_type = BALL_WORK
    /\ verdict.confidence = "confident"
    /\ RecordReturned
    /\ Shape(response.body.data) = MatchSchema

-----------------------------------------------------------------------------
(* C13 *)

\* The raw input without the keys that are not in K
Restrict(input, K) == [k \in DOMAIN input \cap K |-> input[k]]
Values(rec) == {l[4] : l \in Leaves(rec)}

\* C13: for each session type the keys that its template enumerates are the
\* keys that its format function reads: the record of a raw input is the
\* record of the input's template keys alone (no lookup uses another key),
\* and a value under any template key is a value of the record (no template
\* key is ignored).
C13_TemplateLockstep ==
    applied.fn \in JsonModeFunctions =>
        LET T == TemplateKeys(Template(TypeOf(applied.fn)))
        IN /\ T = Reads(applied.fn)
           /\ NormalizerApplied =>
                /\ applied.output = Apply(applied.fn, Restrict(applied.input, T))
                /\ \A k \in DOMAIN applied.input \cap T :
                    applied.input[k] \in Values(applied.output)
                /\ \A k \in T :
                    "7" \in Values(Apply(applied.fn, [j \in {k} |-> "7"]))

\* The template's num_sprints is the record's speed.sprints.
C13_Witness ==
    /\ NormalizerApplied
    /\ applied.fn = "format_speed_agility_result"
    /\ DOMAIN applied.input = {"num_sprints"}
    /\ applied.input["num_sprints"] = "7"
    /\ applied.output.speed.sprints = "7"

-----------------------------------------------------------------------------
(* C14 *)

\* floor(n / 2)
HalfOf(n) == CHOOSE m \in 0..n : 2 * m <= n /\ n < 2 * m + 2

\* The images of the classification call, by their place in the upload
Sampled == [k \in 1..Len(calls[1].images) |-> calls[1].images[k].index]

\* C14: the classification call of a request of n >= 1 images carries image
\* 0 alone when n <= 3, and image 0 and image floor(n/2) when n > 3: never
\* more than two images, and no other image.
C14_Sampling ==
    (Len(calls) >= 1 /\ calls[1].purpose = "classification") =>
        LET n == Len(files)
        IN /\ n >= 1
           /\ n <= 3 => Sampled = <<0>>
           /\ n > 3 => Sampled = <<0, HalfOf(n)>>
           /\ Len(Sampled) <= 2
           /\ \A k \in 1..Len(Sampled) : Sampled[k] \in {0, HalfOf(n)}

\* Seven images: the first and the fourth are sampled.
C14_Witness ==
    /\ Len(calls) >= 1
    /\ Len(files) = 7
    /\ Sampled = <<0, 3>>

-----------------------------------------------------------------------------
(* C15 *)

\* The answer without the white space around it, in lower case
Trimmed(answer) == Lower(Strip(answer))
SaysUncertain(answer) == StartsWith(Trimmed(answer), UNCERTAIN_PREFIX)
\* The answer after its "uncertain:" prefix, when it has one
AfterPrefix(answer) ==
    IF SaysUncertain(answer)
    THEN SubSeq(Trimmed(answer), Len(UNCERTAIN_PREFIX) + 1, Len(Trimmed(answer)))
    ELSE Trimmed(answer)

ClassifierApplied ==
    applied.fn = "validate_session_type" /\ applied.output # NotApplied.output

-----------------------------------------------------------------------------
(* C16 *)

ClassificationCalls == SelectSeq(calls, LAMBDA c : c.purpose = "classification")

\* The classifier's outcome is reject: a confident mismatch other than match
\* against ball work
OutcomeIsReject ==
    /\ verdict.confidence = "confident"
    /\ ~verdict.is_valid
    /\ <<session_type, verdict.detected_type>>
         \notin {<<MATCH, BALL_WORK>>, <<BALL_WORK, MATCH>>}

\* C16: a request issues at most one classification call; every extraction
\* call comes after it, when it has returned or failed and the verdict is
\* there; and a request whose verdict is reject issues no extraction call.
C16_CallOrdering ==
    /\ Len(ClassificationCalls) <= 1
    /\ \A k \in 1..Len(calls) :
        calls[k].purpose = "extraction" =>
            /\ k >= 2
            /\ calls[1].purpose = "classification"
            /\ calls[1].outcome \in {"text", "raise", "unreadable"}
            /\ verdict # NoVerdict
    /\ OutcomeIsReject =>
        /\ ExtractionCalls = <<>>
        /\ pc = "done"

\* A speed-and-agility request whose images are confidently a match ends
\* after its one call.
C16_Witness ==
    /\ pc = "done"
    /\ session_type = SPEED_AGILITY
    /\ OutcomeIsReject
    /\ verdict.detected_type = MATCH
    /\ Len(calls) = 1

-----------------------------------------------------------------------------
(* C17 *)

\* The payload holds every uploaded file, in order and whole
WholeUpload(images) ==
    /\ Len(images) = Len(files)
    /\ \A i \in 1..Len(files) :
        /\ images[i].index = i - 1
        /\ images[i].bytes = files[i].size

\* C17: after the size validation and after the classifier's sampling every
\* file's read position is 0, and the payload built for the extraction, and
\* sent with each extraction call, holds every file's whole content, the
\* sampled files' too.
C17_ImagesSentInFull ==
    /\ pc \in {"classify", "build"} => \A i \in 1..Len(files) : pos[i] = 0
    /\ pc \in {"extract_primary", "extract_fallback", "normalize"} => WholeUpload(content)
    /\ \A k \in 1..Len(ExtractionCalls) : WholeUpload(ExtractionCalls[k].images)

\* Five images, of which the classifier sampled the first and the third: the
\* extraction call carries all five, whole.
C17_Witness ==
    /\ Len(files) = 5
    /\ Len(calls) = 2
    /\ calls[1].images = <<[index |-> 0, bytes |-> 1], [index |-> 2, bytes |-> 1]>>
    /\ calls[2].purpose = "extraction"
    /\ calls[2].images[1].bytes = 1
    /\ calls[2].images[3].bytes = 1
    /\ calls[2].images[5].bytes = MAX_FILE_SIZE

-----------------------------------------------------------------------------
(* C18 *)

BothCallsFailed ==
    /\ Len(ExtractionCalls) = 2
    /\ ExtractionCalls[1].outcome = "raise"
    /\ ExtractionCalls[2].outcome = "raise"

CategoryOf(error) ==
    IF error = "AuthenticationError" THEN 401
    ELSE IF error = "RateLimitError" THEN 429
    ELSE 500

\* C18: when the primary and the fallback extraction call both raised, the
\* request has ended with the category of the fallback call's error (401
\* for a rejected credential, 429 for a rate limit, else 500), and an
\* exception name in the message is the fallback call's: nothing of the
\* response comes from the primary call's error.
C18_FallbackErrorDecides ==
    BothCallsFailed =>
        /\ pc = "done"
        /\ response.status = CategoryOf(ExtractionCalls[2].error)
        /\ DOMAIN response.body = {"error"}
        /\ response.body.error.args # <<>> =>
            response.body.error.args[1] = <<ExtractionCalls[2].error>>

\* A rejected credential at the primary call and a rate limit at the
\* fallback call: the caller is told of the rate limit.
C18_Witness ==
    /\ BothCallsFailed
    /\ ExtractionCalls[1].error = "AuthenticationError"
    /\ ExtractionCalls[2].error = "RateLimitError"
    /\ response.status = 429

-----------------------------------------------------------------------------
(* C19 *)

\* C19: a request whose session_type is missing, or is anything but "match",
\* "ball_work" and "speed_agility", gets no success envelope: whatever the
\* verdict and whatever the model's response, when it has ended it has an
\* error response.
C19_UnknownTypeNeverSucceeds ==
    session_type \notin {MATCH, BALL_WORK, SPEED_AGILITY} =>
        /\ response.status # 200
        /\ ~RecordReturned
        /\ pc = "done" =>
            /\ DOMAIN response.body = {"error"}
            /\ response.status \in {400, 401, 429, 500}

\* A request without a session type whose images were sent, and whose
\* response held a JSON object, ends with the invalid-session-type error.
C19_Witness ==
    /\ Normalized
    /\ session_type = None
    /\ HoldsObject(response_text)
    /\ response.status = 400
    /\ ErrorText(response) = "Invalid session type"

-----------------------------------------------------------------------------
(* C20 *)

\* The record's field for a percentage local
PercentField(fn, local) ==
    IF fn = "extract_ball_work_data"
    THEN CASE local = "left_touches_pct" -> "left_foot_touches_percentage"
           [] local = "right_touches_pct" -> "right_foot_touches_percentage"
           [] local = "left_releases_pct" -> "left_foot_releases_percentage"
           [] local = "right_releases_pct" -> "right_foot_releases_percentage"
    ELSE CASE local = "left_touches_pct" -> "left_foot_touches_pct"
           [] local = "right_touches_pct" -> "right_foot_touches_pct"
           [] local = "left_releases_pct" -> "left_foot_releases_pct"
           [] local = "right_releases_pct" -> "right_foot_releases_pct"
           [] local = "left_receives_pct" -> "left_foot_receives_pct"
           [] local = "right_receives_pct" -> "right_foot_receives_pct"

\* C20: for every percentage with two patterns, the value is the number the
\* specific pattern found whenever it found one, 0 included, and what the
\* looser pattern finds only when the specific pattern found nothing.
C20_PercentageFallback ==
    NormalizerApplied =>
        \A pair \in PercentPatterns(applied.fn) :
            LET specific == Local(applied.input, pair[1])
                looser == Local(applied.input, pair[2])
                value == applied.output.two_footed[PercentField(applied.fn, pair[1])]
            IN /\ specific # Null => value = specific
               /\ specific = Null => value = looser

\* The specific pattern captured 0 and the looser pattern nothing: the
\* percentage is null.
C20_Witness ==
    /\ NormalizerApplied
    /\ applied.fn = "extract_ball_work_data"
    /\ DOMAIN applied.input = {"left_touches_pct"}
    /\ applied.input["left_touches_pct"] = "0"
    /\ applied.output.two_footed.left_foot_touches_percentage = Null

-----------------------------------------------------------------------------
(* C21: the score and the opponent of a match *)

\* The score pair of a text has been read
ScoreApplied ==
    /\ applied.fn = "extract_match_data"
    /\ applied.output # NotApplied.output
    /\ DOMAIN applied.output = {"athlete_score", "opposing_score", "opposing_team_name"}

\* The first '<int> : <int>' of a text
FirstPair(text) ==
    Search({ScoreAt(Lower(text), i) : i \in 1..Len(text)})

\* What stands between an occurrence and the next line break, without the
\* white space around it
Following(text, occurrence) ==
    Strip(SubSeq(Lower(text), occurrence.end + 1,
                 LineEnd(Lower(text), occurrence.end + 1)))

\* C21: the two scores are the two integers of the first '<int> : <int>' of
\* the text and the name of the opponent is the text that follows that same
\* occurrence up to the next line break (absent or empty when nothing
\* follows it); without such an occurrence the three are absent.
C21_ScorePair ==
    ScoreApplied =>
        LET first == FirstPair(applied.input)
            out == applied.output
        IN IF first.start = 0
           THEN /\ out.athlete_score = None
                /\ out.opposing_score = None
                /\ out.opposing_team_name = None
           ELSE /\ out.athlete_score = int(first.groups[1])
                /\ out.opposing_score = int(first.groups[2])
                /\ \/ out.opposing_team_name = Following(applied.input, first)
                   \/ /\ Following(applied.input, first) = <<>>
                      /\ out.opposing_team_name = None

\* 'Cityplay FC 1 : 4 FC Westlake' gives 1, 4 and 'fc westlake'.
C21_Witness ==
    /\ ScoreApplied
    /\ applied.input = ScoreExample
    /\ applied.output.athlete_score = <<"1">>
    /\ applied.output.opposing_score = <<"4">>
    /\ applied.output.opposing_team_name =
         <<"f","c"," ","w","e","s","t","l","a","k","e">>

\* The score ends its line: the name is taken from the line after it.
C21_NextLine ==
    /\ ScoreApplied
    /\ applied.input = <<"1", ":", "4", "\n", "a">>
    /\ applied.output.opposing_team_name = <<"a">>

-----------------------------------------------------------------------------
(* C22: the date of a session *)

\* The date of a text has been read
DateApplied ==
    /\ applied.fn \in TextModeExtractors
    /\ applied.output # NotApplied.output
    /\ DOMAIN applied.output = {"date"}

\* The months of the texts, as the two digits of a date
MonthDigits(name) ==
    CASE Lower(name) = <<"m","a","r","c","h">> -> <<"0","3">>
      [] Lower(name) = <<"f","e","b","r","u","a","r","y">> -> <<"0","2">>
      [] Lower(name) = <<"a","p","r","i","l">> -> <<"0","4">>
      [] Lower(name) = <<"m","a","y">> -> <<"0","5">>
      [] OTHER -> <<>>

\* The parts are a month, a day of one or two digits and a year of four
Shaped(p) ==
    /\ MonthDigits(p.month) # <<>>
    /\ Len(p.day) \in {1, 2}
    /\ Len(p.year) = 4

\* The parts name a day of the calendar
OnCalendar(p) ==
    LET february == MonthDigits(p.month) = <<"0","2">>
        leap == p.year \in {<<"2","0","2","4">>, <<"2","0","0","0">>}
    IN /\ p.year # <<"0","0","0","0">>
       /\ \/ p.day \in {<<"5">>, <<"0","5">>}
          \/ p.day = <<"2","9">> /\ (february => leap)
          \/ p.day = <<"3","0">> /\ ~february
          \/ p.day = <<"3","1">> /\ MonthDigits(p.month) \in {<<"0","3">>, <<"0","5">>}

\* The parts stand as '<Month> <day>, <year>'
Spaced(p) == p.gap = <<" ">> /\ p.comma = <<",">> /\ p.space = <<" ">>

\* The parts do not stand apart: no comma, or nothing between month and day
Fused(p) == p.comma = <<>> \/ p.gap = <<>>

\* 'YYYY-MM-DD' of the parts
IsoDate(p) ==
    p.year \o <<"-">> \o MonthDigits(p.month) \o <<"-">>
        \o (IF Len(p.day) = 1 THEN <<"0">> \o p.day ELSE p.day)

\* C22: in each text-mode extractor a '<Month> <day>, <year>' date of the
\* text is returned as 'YYYY-MM-DD'; a text without such a date, and a date
\* that is no day of the calendar, give an absent date; and in every case
\* the function returns, with an absent date or with that date.
C22_DateNormalization ==
    DateApplied =>
        LET p == applied.input.parts
            date == applied.output.date
        IN /\ Shaped(p) /\ OnCalendar(p) /\ Spaced(p) => date = IsoDate(p)
           /\ ~ Shaped(p) \/ ~ OnCalendar(p) \/ Fused(p) => date = None
           /\ date \in {None, IsoDate(p)}

\* 'february 30, 2024' is matched, is no day of the calendar, and gives an
\* absent date.
C22_Witness ==
    /\ DateApplied
    /\ applied.input.text =
         <<"f","e","b","r","u","a","r","y"," ","3","0",","," ","2","0","2","4">>
    /\ applied.output.date = None

-----------------------------------------------------------------------------
(* C23: extract_number *)

\* extract_number has returned
NumberApplied ==
    /\ applied.fn = "extract_number"
    /\ applied.output # NotApplied.output

\* The longest beginning of s made of characters of S
RECURSIVE Leading(_, _)
Leading(s, S) ==
    IF Len(s) > 0 /\ Head(s) \in S THEN <<Head(s)>> \o Leading(Tail(s), S) ELSE <<>>

\* What the first group of the pattern captures in the text of these parts
\* (nothing when the pattern does not match)
Captured(input) ==
    LET label == Lower(input.parts.label)
        labelled ==
            IF input.pattern = SPRINTS
            THEN label = <<"s","p","r","i","n","t","s">>
            ELSE label = <<"t","o","p"," ","s","p","e","e","d">>
    IN IF labelled THEN Leading(input.parts.number, input.pattern.class) ELSE <<>>

\* 10 to the power n
RECURSIVE Pow10(_)
Pow10(n) == IF n = 0 THEN 1 ELSE 10 * Pow10(n - 1)

\* The text is one number with a decimal point, and out is that number
IsNumber(s) ==
    /\ Cardinality({n \in 1..Len(s) : s[n] = "."}) = 1
    /\ \E n \in 1..Len(s) : s[n] \in Digits
Whole(s) == Leading(s, Digits)
Fraction(s) == SubSeq(s, Len(Whole(s)) + 2, Len(s))
SameNumber(out, s) ==
    /\ Value(out.digits) = Value(Whole(s))
    /\ Value(out.fraction) * Pow10(Len(Fraction(s)))
         = Value(Fraction(s)) * Pow10(Len(out.fraction))

\* C23: extract_number always returns, and what it returns is fixed by the
\* text and the pattern: absent when the pattern does not match; a
\* floating-point value when the first group holds a decimal point and is
\* a number; an integer when it holds none; and absent, not an error, when
\* the group holds a decimal point and is no number ('.', '1.2.3').
C23_ExtractNumber ==
    NumberApplied =>
        LET group == Captured(applied.input)
            out == applied.output
            dotted == \E n \in 1..Len(group) : group[n] = "."
        IN /\ out.type \in {"NoneType", "int", "float"}
           /\ group = <<>> => out.type = "NoneType"
           /\ group # <<>> /\ ~ dotted =>
                /\ out.type = "int"
                /\ Value(out.digits) = Value(group)
                /\ out.fraction = <<>>
           /\ dotted /\ IsNumber(group) => out.type = "float" /\ SameNumber(out, group)
           /\ dotted /\ ~ IsNumber(group) => out.type = "NoneType"

\* 'Top speed: 1.2.3 mph': the group is '1.2.3', no number, and the result
\* is absent.
C23_Witness ==
    /\ NumberApplied
    /\ applied.input.pattern = TOP_SPEED
    /\ applied.input.text =
         <<"T","o","p"," ","s","p","e","e","d",":"," ","1",".","2",".","3",
           " ","m","p","h">>
    /\ applied.output = Absent

====
